---- MODULE Spec2Model ----
(***************************************************************************)
(* Belief-state engine of the Pokemon Showdown set predictor               *)
(* (src/Desktop/PS/src/set_predictor.py, hybrid_predictor.py)              *)
(* and of its mechanics detector (niche_mechanics.py).                     *)
(*                                                                         *)
(* A probability distribution (a Python dict name -> float) is modelled    *)
(* as an exact rational-valued map with one common denominator:            *)
(*     [w |-> [name -> numerator], d |-> denominator]                      *)
(* kept in lowest terms (Canon), so two model distributions are equal      *)
(* exactly when the dicts hold the same names with the same exact values.  *)
(* Floating-point rounding is not modelled.  The empty dict is EmptyDist.  *)
(* Python's None is the string None; observed names are non-empty strings, *)
(* so the truthiness tests `if prediction.revealed_item:` read `# None`.   *)
(***************************************************************************)
EXTENDS Integers, FiniteSets, Sequences, TLC

VARIABLES
    prediction,              \* the SetPrediction of the creature being tracked
    is_trained,              \* ml_predictor.is_trained
    battle_history,          \* len(battle_recorder.battle_history)
    current_battle_context,  \* HybridSetPredictor.current_battle_context
    current_battle,          \* battle_recorder.current_battle
    soft_count,              \* move reveals so far that reweighted softly
    obs_count,               \* damage / ability-activation observations so far
    mechanics,               \* last NicheMechanicsDetector call and its result
    raised,                  \* an exception of ml_predictor.predict reached the caller
    creatures,               \* two SetPredictions side by side, as objects
    history_pokemon,         \* creature records held by battle_history
    last_train_battle_count, \* ml_predictor.last_train_battle_count
    trained_at,              \* len(battle_history) when train last succeeded
    recorder_error,          \* record_pokemon raised 'No active battle'
    parser,                  \* a PokemonShowdownParser
    parse_error              \* the exception that left parse_battle_log

vars == <<prediction, is_trained, battle_history, current_battle_context,
          current_battle, soft_count, obs_count, mechanics, raised,
          creatures, history_pokemon, last_train_battle_count, trained_at,
          recorder_error, parser, parse_error>>

None == "None"

\* ------------------------------------------------------------------ bounds
MaxTurns == 3
MaxSoft == 2
MaxObs == 1
MaxRevealTurns == 5
MaxBattles == 1100
MaxStream == 3
MaxRecordedBattles == 101
MaxRecordsPerBattle == 2
MaxEvents == 3

\* ------------------------------------------------------- rational helpers
RECURSIVE Gcd(_, _)
Gcd(a, b) == IF b = 0 THEN a ELSE Gcd(b, a % b)

RECURSIVE SumOver(_, _)
SumOver(f, S) ==
    IF S = {} THEN 0
    ELSE LET k == CHOOSE x \in S : TRUE IN f[k] + SumOver(f, S \ {k})

RECURSIVE GcdOver(_, _, _)
GcdOver(f, S, g) ==
    IF S = {} THEN g
    ELSE LET k == CHOOSE x \in S : TRUE IN GcdOver(f, S \ {k}, Gcd(g, f[k]))

EmptyFcn == [x \in {} |-> 0]
EmptyDist == [w |-> EmptyFcn, d |-> 1]

Keys(dist) == DOMAIN dist.w
Total(dist) == SumOver(dist.w, Keys(dist))

\* lowest-terms representation of a dict of exact rationals
Canon(dist) ==
    LET g == GcdOver(dist.w, Keys(dist), dist.d)
    IN [w |-> [k \in Keys(dist) |-> dist.w[k] \div g], d |-> dist.d \div g]

\* {name: 1.0}
Certain(name) == [w |-> [k \in {name} |-> 1], d |-> 1]

\* dict[name] = 1.0
SetOne(dist, name) ==
    Canon([w |-> [k \in Keys(dist) \cup {name} |->
                    IF k = name THEN dist.d ELSE dist.w[k]],
           d |-> dist.d])

\* del dict[name] for every name of S present
Del(dist, S) ==
    Canon([w |-> [k \in Keys(dist) \ S |-> dist.w[k]], d |-> dist.d])

\* dict[name] *= num/den for every name of S present
Boost(dist, S, num, den) ==
    Canon([w |-> [k \in Keys(dist) |->
                    IF k \in S THEN dist.w[k] * num ELSE dist.w[k] * den],
           d |-> dist.d * den])

\* total = sum(values); if total > 0: {k: v / total}
Renormalize(dist) ==
    IF Total(dist) > 0 THEN Canon([w |-> dist.w, d |-> Total(dist)])
    ELSE dist

Max(a, b) == IF a >= b THEN a ELSE b

RECURSIVE MaxOver(_, _)
MaxOver(f, S) ==
    IF S = {} THEN 0
    ELSE LET k == CHOOSE x \in S : TRUE IN Max(f[k], MaxOver(f, S \ {k}))

\* rationals <<numerator, denominator>> in lowest terms
RNorm(n, d) == LET g == Gcd(n, d) IN <<n \div g, d \div g>>

RAdd(a, b) ==
    LET g == Gcd(a[2], b[2])
    IN RNorm(a[1] * (b[2] \div g) + b[1] * (a[2] \div g), (a[2] \div g) * b[2])

RMul(a, b) ==
    LET x == RNorm(a[1], b[2])
        y == RNorm(b[1], a[2])
    IN <<x[1] * y[1], x[2] * y[2]>>

\* max(dict.values()) if dict else 0
MaxProb(dist) == RNorm(MaxOver(dist.w, Keys(dist)), dist.d)

\* ------------------------------------------------------------ static tables
\* SetPredictor.non_attacking_moves (moves blocked by Assault Vest)
non_attacking_moves ==
    {"Swords Dance", "Nasty Plot", "Dragon Dance", "Calm Mind", "Bulk Up",
     "Quiver Dance", "Stealth Rock", "Spikes", "Toxic Spikes", "Sticky Web",
     "Thunder Wave", "Will-O-Wisp", "Toxic", "Spore", "Sleep Powder",
     "Hypnosis", "Recover", "Roost", "Soft-Boiled", "Wish", "Synthesis",
     "Morning Sun", "Moonlight", "Protect", "Detect", "Substitute", "Taunt",
     "Encore", "Trick", "Switcheroo", "Defog", "Haze", "Whirlwind", "Roar",
     "Light Screen", "Reflect", "Tailwind", "Trick Room", "Magic Room",
     "Wonder Room", "Leech Seed", "Rest", "Sleep Talk", "Baton Pass",
     "Teleport", "Parting Shot"}

choice_items == {"Choice Band", "Choice Scarf", "Choice Specs"}

healing_items == {"Leftovers", "Black Sludge", "Shell Bell"}

move_synergies ==
    [m \in {"Swords Dance", "Nasty Plot", "Dragon Dance", "U-turn",
            "Volt Switch", "Stealth Rock", "Spikes"} |->
        CASE m = "Swords Dance" ->
                {"Sucker Punch", "Close Combat", "Iron Head", "Earthquake"}
          [] m = "Nasty Plot" ->
                {"Dark Pulse", "Sludge Bomb", "Flamethrower", "Focus Blast"}
          [] m = "Dragon Dance" ->
                {"Outrage", "Earthquake", "Extreme Speed", "Fire Punch"}
          [] m = "U-turn" -> {"Earthquake", "Close Combat", "Stone Edge"}
          [] m = "Volt Switch" -> {"Thunderbolt", "Hidden Power", "Focus Blast"}
          [] m = "Stealth Rock" -> {"Rapid Spin", "Earthquake", "Close Combat"}
          [] m = "Spikes" -> {"Rapid Spin", "Toxic", "Protect"}]

move_item_hints ==
    [m \in {"Swords Dance", "Nasty Plot", "Dragon Dance", "U-turn",
            "Volt Switch", "Stealth Rock", "Protect"} |->
        CASE m = "Swords Dance" -> {"Leftovers", "Life Orb", "Lum Berry"}
          [] m = "Nasty Plot" -> {"Leftovers", "Life Orb", "Focus Sash"}
          [] m = "Dragon Dance" -> {"Leftovers", "Lum Berry", "Life Orb"}
          [] m = "U-turn" -> {"Choice Scarf", "Choice Band", "Heavy-Duty Boots"}
          [] m = "Volt Switch" ->
                {"Choice Specs", "Choice Scarf", "Heavy-Duty Boots"}
          [] m = "Stealth Rock" ->
                {"Leftovers", "Rocky Helmet", "Heavy-Duty Boots"}
          [] m = "Protect" -> {"Leftovers", "Black Sludge", "Sitrus Berry"}]

required_items ==
    [s \in {"Ogerpon-Wellspring", "Ogerpon-Hearthflame", "Ogerpon-Cornerstone",
            "Arceus-Fire", "Arceus-Water", "Arceus-Electric",
            "Silvally-Fire", "Silvally-Water"} |->
        CASE s = "Ogerpon-Wellspring" -> "Wellspring Mask"
          [] s = "Ogerpon-Hearthflame" -> "Hearthflame Mask"
          [] s = "Ogerpon-Cornerstone" -> "Cornerstone Mask"
          [] s = "Arceus-Fire" -> "Flame Plate"
          [] s = "Arceus-Water" -> "Splash Plate"
          [] s = "Arceus-Electric" -> "Zap Plate"
          [] s = "Silvally-Fire" -> "Fire Memory"
          [] s = "Silvally-Water" -> "Water Memory"]

\* required_items.get(pokemon_name)
get_required_item(pokemon_name) ==
    IF pokemon_name \in DOMAIN required_items
    THEN required_items[pokemon_name] ELSE None

\* ------------------------------------------------------------- prior table
\* The loaded Smogon moveset statistics: species -> category -> name -> usage
\* percentage.  Species outside the table have no prior data.
moveset_stats ==
    [s \in {"Dragapult", "Cinderace", "Great Tusk", "Ogerpon-Wellspring"} |->
        CASE s = "Dragapult" ->
                [abilities |-> ("Infiltrator" :> 60 @@ "Clear Body" :> 40),
                 items |-> ("Choice Band" :> 50 @@ "Heavy-Duty Boots" :> 30
                            @@ "Assault Vest" :> 20),
                 moves |-> ("U-turn" :> 90 @@ "Earthquake" :> 60
                            @@ "Dragon Darts" :> 50),
                 spreads |-> ("Jolly:0/252/0/0/4/252" :> 100),
                 tera_types |-> ("Ghost" :> 60 @@ "Fire" :> 40)]
          [] s = "Cinderace" ->
                [abilities |-> ("Libero" :> 80 @@ "Blaze" :> 20),
                 items |-> ("Choice Scarf" :> 50 @@ "Life Orb" :> 30
                            @@ "Leftovers" :> 20),
                 moves |-> ("U-turn" :> 80 @@ "Thunderbolt" :> 20),
                 spreads |-> EmptyFcn,
                 tera_types |-> ("Fire" :> 100)]
          [] s = "Great Tusk" ->
                [abilities |-> ("Protosynthesis" :> 100),
                 items |-> ("Booster Energy" :> 40 @@ "Heavy-Duty Boots" :> 40
                            @@ "Leftovers" :> 20),
                 moves |-> ("Earthquake" :> 90 @@ "Close Combat" :> 70
                            @@ "Swords Dance" :> 40),
                 spreads |-> EmptyFcn,
                 tera_types |-> ("Steel" :> 100)]
          [] s = "Ogerpon-Wellspring" ->
                [abilities |-> ("Water Absorb" :> 100),
                 items |-> ("Leftovers" :> 70 @@ "Wellspring Mask" :> 30),
                 moves |-> ("Ivy Cudgel" :> 95 @@ "Swords Dance" :> 40),
                 spreads |-> EmptyFcn,
                 tera_types |-> ("Water" :> 100)]]

\* DataManager.get_pokemon_moveset: the species' data, or None.
\* (The case-insensitive second lookup is not exercised: species names are
\* spelled as in the table.)
get_pokemon_moveset(pokemon_name) ==
    IF pokemon_name \in DOMAIN moveset_stats
    THEN [found |-> TRUE, data |-> moveset_stats[pokemon_name]]
    ELSE [found |-> FALSE, data |-> None]

\* ------------------------------------------------------------ SetPredictor
normalize_probs(data) ==
    IF DOMAIN data = {} THEN EmptyDist
    ELSE LET total == SumOver(data, DOMAIN data)
         IN IF total > 0 THEN Canon([w |-> data, d |-> total])
            ELSE Canon([w |-> data, d |-> 100])

\* The confidence float is kept as the exact quantities it is computed from
\* (revealed_count and the three maximum probabilities, lines 457-470);
\* ConfidenceValue combines them as lines 472-477 do.  Keeping the operands
\* instead of the combined fraction keeps every stored number within TLC's
\* integer range; equal records always denote equal floats.
calculate_confidence(p) ==
    [revealed_count |->
        Cardinality(p.revealed_moves)
        + (IF p.revealed_ability # None THEN 1 ELSE 0)
        + (IF p.revealed_item # None THEN 1 ELSE 0),
     max_move_prob |-> MaxProb(p.move_probs),
     max_item_prob |-> MaxProb(p.item_probs),
     max_ability_prob |-> MaxProb(p.ability_probs)]

\* confidence: float = 0.0
ZeroConfidence ==
    [revealed_count |-> 0, max_move_prob |-> <<0, 1>>,
     max_item_prob |-> <<0, 1>>, max_ability_prob |-> <<0, 1>>]

\* min(1.0, 0.6 * base_confidence + 0.4 * distribution_confidence)
ConfidenceValue(c) ==
    LET base_confidence == RNorm(c.revealed_count, 6)
        distribution_confidence ==
            RMul(RAdd(RAdd(c.max_move_prob, c.max_item_prob),
                      c.max_ability_prob), <<1, 3>>)
        confidence == RAdd(RMul(<<3, 5>>, base_confidence),
                           RMul(<<2, 5>>, distribution_confidence))
    IN IF confidence[1] >= confidence[2] THEN <<1, 1>> ELSE confidence

\* ---------------------------------------------------------- SetPrediction
\* dataclass defaults
SetPrediction(pokemon_name) ==
    [pokemon |-> pokemon_name,
     revealed_moves |-> {},
     revealed_ability |-> None,
     revealed_item |-> None,
     revealed_tera |-> None,
     ability_probs |-> EmptyDist,
     item_probs |-> EmptyDist,
     move_probs |-> EmptyDist,
     spread_probs |-> EmptyDist,
     tera_probs |-> EmptyDist,
     confidence |-> ZeroConfidence,
     turns_seen |-> 0,
     impossible_items |-> {}]

\* variant: the Choice rule counts turns instead of distinct moves
apply_move_constraints_counting_turns(p, move_name) ==
    IF p.revealed_item # None THEN p
    ELSE LET imp1 == IF p.turns_seen >= 2
                     THEN p.impossible_items \cup choice_items
                     ELSE p.impossible_items
             imp2 == IF move_name \in non_attacking_moves
                     THEN imp1 \cup {"Assault Vest"}
                     ELSE imp1
         IN [p EXCEPT !.impossible_items = imp2,
                      !.item_probs = Renormalize(Del(p.item_probs, imp2))]

\* variant: the Choice rule waits for a third distinct move
apply_move_constraints_three_moves(p, move_name) ==
    IF p.revealed_item # None THEN p
    ELSE LET imp1 == IF Cardinality(p.revealed_moves) >= 3
                     THEN p.impossible_items \cup choice_items
                     ELSE p.impossible_items
             imp2 == IF move_name \in non_attacking_moves
                     THEN imp1 \cup {"Assault Vest"}
                     ELSE imp1
         IN [p EXCEPT !.impossible_items = imp2,
                      !.item_probs = Renormalize(Del(p.item_probs, imp2))]

\* variant: the item distribution is not renormalized after the removal
apply_move_constraints_no_renormalize(p, move_name) ==
    IF p.revealed_item # None THEN p
    ELSE LET imp1 == IF Cardinality(p.revealed_moves) >= 2
                     THEN p.impossible_items \cup choice_items
                     ELSE p.impossible_items
             imp2 == IF move_name \in non_attacking_moves
                     THEN imp1 \cup {"Assault Vest"}
                     ELSE imp1
         IN [p EXCEPT !.impossible_items = imp2,
                      !.item_probs = Del(p.item_probs, imp2)]

\* variant: the Assault Vest rule fires on damaging moves
apply_move_constraints_vest_inverted(p, move_name) ==
    IF p.revealed_item # None THEN p
    ELSE LET imp1 == IF Cardinality(p.revealed_moves) >= 2
                     THEN p.impossible_items \cup choice_items
                     ELSE p.impossible_items
             imp2 == IF move_name \notin non_attacking_moves
                     THEN imp1 \cup {"Assault Vest"}
                     ELSE imp1
         IN [p EXCEPT !.impossible_items = imp2,
                      !.item_probs = Renormalize(Del(p.item_probs, imp2))]

apply_move_constraints(p, move_name) ==
    IF p.revealed_item # None THEN p
    ELSE LET imp1 == IF Cardinality(p.revealed_moves) >= 2
                     THEN p.impossible_items \cup choice_items
                     ELSE p.impossible_items
             imp2 == IF move_name \in non_attacking_moves
                     THEN imp1 \cup {"Assault Vest"}
                     ELSE imp1
         IN [p EXCEPT !.impossible_items = imp2,
                      !.item_probs = Renormalize(Del(p.item_probs, imp2))]

update_correlated_moves_boosting_revealed(p, revealed_move) ==
    IF revealed_move \in DOMAIN move_synergies
    THEN [p EXCEPT !.move_probs =
            Renormalize(Boost(p.move_probs, move_synergies[revealed_move],
                              3, 2))]
    ELSE p

update_correlated_moves(p, revealed_move) ==
    IF revealed_move \in DOMAIN move_synergies
    THEN [p EXCEPT !.move_probs =
            Renormalize(Boost(p.move_probs,
                              move_synergies[revealed_move] \ p.revealed_moves,
                              3, 2))]
    ELSE p

update_correlated_items(p, revealed_move) ==
    IF p.revealed_item # None THEN p
    ELSE IF revealed_move \in DOMAIN move_item_hints
    THEN [p EXCEPT !.item_probs =
            Renormalize(Boost(p.item_probs, move_item_hints[revealed_move],
                              13, 10))]
    ELSE p

\* both hooks return the prediction untouched
update_for_ability(p, ability) == p

update_for_item(p, item) == p

\* variant: a species without prior data still gets its required item
create_initial_prediction_without_early_return(pokemon_name) ==
    LET p0 == SetPrediction(pokemon_name)
        required_item == get_required_item(pokemon_name)
        p3 == IF required_item # None
              THEN [p0 EXCEPT !.revealed_item = required_item,
                              !.item_probs = Certain(required_item)]
              ELSE p0
    IN [p3 EXCEPT !.confidence = calculate_confidence(p3)]

create_initial_prediction_without_auto_confirm(pokemon_name) ==
    LET p0 == SetPrediction(pokemon_name)
        ms == get_pokemon_moveset(pokemon_name)
    IN IF ~ms.found THEN p0
       ELSE
       LET p1 == [p0 EXCEPT
                    !.ability_probs = normalize_probs(ms.data.abilities),
                    !.item_probs = normalize_probs(ms.data.items),
                    !.move_probs = normalize_probs(ms.data.moves),
                    !.spread_probs = normalize_probs(ms.data.spreads),
                    !.tera_probs = normalize_probs(ms.data.tera_types)]
           required_item == get_required_item(pokemon_name)
           p3 == IF required_item # None
                 THEN [p1 EXCEPT !.revealed_item = required_item,
                                 !.item_probs = Certain(required_item)]
                 ELSE p1
       IN [p3 EXCEPT !.confidence = calculate_confidence(p3)]

create_initial_prediction(pokemon_name) ==
    LET p0 == SetPrediction(pokemon_name)
        ms == get_pokemon_moveset(pokemon_name)
    IN IF ~ms.found THEN p0
       ELSE
       LET p1 == [p0 EXCEPT
                    !.ability_probs = normalize_probs(ms.data.abilities),
                    !.item_probs = normalize_probs(ms.data.items),
                    !.move_probs = normalize_probs(ms.data.moves),
                    !.spread_probs = normalize_probs(ms.data.spreads),
                    !.tera_probs = normalize_probs(ms.data.tera_types)]
           p2 == IF Cardinality(Keys(p1.ability_probs)) = 1
                 THEN LET ability_name == CHOOSE a \in Keys(p1.ability_probs) : TRUE
                      IN [p1 EXCEPT !.revealed_ability = ability_name,
                                    !.ability_probs = Certain(ability_name)]
                 ELSE p1
           required_item == get_required_item(pokemon_name)
           p3 == IF required_item # None
                 THEN [p2 EXCEPT !.revealed_item = required_item,
                                 !.item_probs = Certain(required_item)]
                 ELSE p2
       IN [p3 EXCEPT !.confidence = calculate_confidence(p3)]

\* variant: the confidence is computed before the correlation boosts
update_with_move_confidence_first(p, move_name) ==
    LET p1 == [p EXCEPT !.revealed_moves = @ \cup {move_name},
                        !.turns_seen = @ + 1,
                        !.move_probs = SetOne(@, move_name)]
        p2 == apply_move_constraints(p1, move_name)
        p3 == [p2 EXCEPT !.confidence = calculate_confidence(p2)]
        p4 == update_correlated_moves(p3, move_name)
    IN update_correlated_items(p4, move_name)

update_with_move(p, move_name) ==
    LET p1 == [p EXCEPT !.revealed_moves = @ \cup {move_name},
                        !.turns_seen = @ + 1,
                        !.move_probs = SetOne(@, move_name)]
        p2 == apply_move_constraints(p1, move_name)
        p3 == update_correlated_moves(p2, move_name)
        p4 == update_correlated_items(p3, move_name)
    IN [p4 EXCEPT !.confidence = calculate_confidence(p4)]

update_with_ability(p, ability_name) ==
    LET p1 == [p EXCEPT !.revealed_ability = ability_name,
                        !.turns_seen = @ + 1,
                        !.ability_probs = Certain(ability_name)]
        p2 == update_for_ability(p1, ability_name)
    IN [p2 EXCEPT !.confidence = calculate_confidence(p2)]

update_with_item(p, item_name) ==
    LET p1 == [p EXCEPT !.revealed_item = item_name,
                        !.turns_seen = @ + 1,
                        !.item_probs = Certain(item_name)]
        p2 == update_for_item(p1, item_name)
    IN [p2 EXCEPT !.confidence = calculate_confidence(p2)]

\* variant: the hazard rule overwrites the eliminated set
apply_damage_constraints_overwrite(p, took_hazard_damage, healed_over_time, took_recoil) ==
    IF p.revealed_item # None THEN p
    ELSE LET newly == took_hazard_damage
                      /\ "Heavy-Duty Boots" \notin p.impossible_items
             imp == IF newly THEN {"Heavy-Duty Boots"}
                    ELSE p.impossible_items
             i1 == IF newly THEN Del(p.item_probs, {"Heavy-Duty Boots"})
                   ELSE p.item_probs
             i2 == IF healed_over_time THEN Boost(i1, healing_items, 3, 1)
                   ELSE i1
             i3 == IF took_recoil THEN Boost(i2, {"Life Orb"}, 2, 1) ELSE i2
         IN [p EXCEPT !.impossible_items = imp,
                      !.item_probs = Renormalize(i3)]

apply_damage_constraints_keeping_boots(p, took_hazard_damage, healed_over_time, took_recoil) ==
    IF p.revealed_item # None THEN p
    ELSE LET newly == took_hazard_damage
                      /\ "Heavy-Duty Boots" \notin p.impossible_items
             imp == IF newly THEN p.impossible_items \cup {"Heavy-Duty Boots"}
                    ELSE p.impossible_items
             i2 == IF healed_over_time THEN Boost(p.item_probs, healing_items, 3, 1)
                   ELSE p.item_probs
             i3 == IF took_recoil THEN Boost(i2, {"Life Orb"}, 2, 1) ELSE i2
         IN [p EXCEPT !.impossible_items = imp,
                      !.item_probs = Renormalize(i3)]

apply_damage_constraints_heal_doubles(p, took_hazard_damage, healed_over_time, took_recoil) ==
    IF p.revealed_item # None THEN p
    ELSE LET newly == took_hazard_damage
                      /\ "Heavy-Duty Boots" \notin p.impossible_items
             imp == IF newly THEN p.impossible_items \cup {"Heavy-Duty Boots"}
                    ELSE p.impossible_items
             i1 == IF newly THEN Del(p.item_probs, {"Heavy-Duty Boots"})
                   ELSE p.item_probs
             i2 == IF healed_over_time THEN Boost(i1, healing_items, 2, 1)
                   ELSE i1
             i3 == IF took_recoil THEN Boost(i2, {"Life Orb"}, 2, 1) ELSE i2
         IN [p EXCEPT !.impossible_items = imp,
                      !.item_probs = Renormalize(i3)]

apply_damage_constraints(p, took_hazard_damage, healed_over_time, took_recoil) ==
    IF p.revealed_item # None THEN p
    ELSE LET newly == took_hazard_damage
                      /\ "Heavy-Duty Boots" \notin p.impossible_items
             imp == IF newly THEN p.impossible_items \cup {"Heavy-Duty Boots"}
                    ELSE p.impossible_items
             i1 == IF newly THEN Del(p.item_probs, {"Heavy-Duty Boots"})
                   ELSE p.item_probs
             i2 == IF healed_over_time THEN Boost(i1, healing_items, 3, 1)
                   ELSE i1
             i3 == IF took_recoil THEN Boost(i2, {"Life Orb"}, 2, 1) ELSE i2
         IN [p EXCEPT !.impossible_items = imp,
                      !.item_probs = Renormalize(i3)]

apply_ability_activation_constraint_protosynthesis_only(p, ability_activated_on_switch, sun_active, electric_terrain_active) ==
    LET is_protosynthesis == p.revealed_ability = "Protosynthesis"
    IN IF p.revealed_item # None THEN p
       ELSE IF ~is_protosynthesis THEN p
       ELSE IF ~ability_activated_on_switch THEN p
       ELSE IF sun_active THEN p
       ELSE [p EXCEPT !.revealed_item = "Booster Energy",
                      !.item_probs = Certain("Booster Energy")]

apply_ability_activation_constraint_ignoring_conditions(p, ability_activated_on_switch, sun_active, electric_terrain_active) ==
    LET is_protosynthesis == p.revealed_ability = "Protosynthesis"
        is_quark_drive == p.revealed_ability = "Quark Drive"
    IN IF p.revealed_item # None THEN p
       ELSE IF ~(is_protosynthesis \/ is_quark_drive) THEN p
       ELSE IF ~ability_activated_on_switch THEN p
       ELSE [p EXCEPT !.revealed_item = "Booster Energy",
                      !.item_probs = Certain("Booster Energy")]

apply_ability_activation_constraint(p, ability_activated_on_switch, sun_active, electric_terrain_active) ==
    LET is_protosynthesis == p.revealed_ability = "Protosynthesis"
        is_quark_drive == p.revealed_ability = "Quark Drive"
    IN IF p.revealed_item # None THEN p
       ELSE IF ~(is_protosynthesis \/ is_quark_drive) THEN p
       ELSE IF ~ability_activated_on_switch THEN p
       ELSE IF is_protosynthesis /\ sun_active THEN p
       ELSE IF is_quark_drive /\ electric_terrain_active THEN p
       ELSE [p EXCEPT !.revealed_item = "Booster Energy",
                      !.item_probs = Certain("Booster Energy")]

\* ------------------------------------------------------ HybridSetPredictor
\* variant: the first step is taken after 50 battles, not at 50
calculate_ml_weight_after_fifty(num_battles) ==
    IF num_battles <= 50 THEN 0
    ELSE IF num_battles < 100 THEN 2
    ELSE IF num_battles < 200 THEN 4
    ELSE IF num_battles < 500 THEN 5
    ELSE IF num_battles < 1000 THEN 6
    ELSE 7

\* ML weight in tenths: 0.0 / 0.2 / 0.4 / 0.5 / 0.6 / 0.7
calculate_ml_weight(num_battles) ==
    IF num_battles < 50 THEN 0
    ELSE IF num_battles < 100 THEN 2
    ELSE IF num_battles < 200 THEN 4
    ELSE IF num_battles < 500 THEN 5
    ELSE IF num_battles < 1000 THEN 6
    ELSE 7

Get(dist, name) == IF name \in Keys(dist) THEN dist.w[name] ELSE 0

\* bayesian_weight * bayesian_prob + ml_weight * ml_prob over the given names,
\* with ml_weight = k/10; the names of `ones` are set to 1.0 instead
Mix(b, ml, k, names, ones) ==
    LET ml_weight == RNorm(k, 10)
        g == Gcd(b.d, ml.d)
        fb == ml.d \div g
        fm == b.d \div g
        dd == ml_weight[2] * fb * b.d
    IN [w |-> [x \in names |->
                IF x \in ones THEN dd
                ELSE (ml_weight[2] - ml_weight[1]) * Get(b, x) * fb
                     + ml_weight[1] * Get(ml, x) * fm],
        d |-> dd]

\* variant: the item blend does not skip a confirmed item
blend_predictions_ignoring_reveal(p, ml_pred, k) ==
    LET items == Mix(p.item_probs, ml_pred.item, k,
                     (Keys(p.item_probs) \cup Keys(ml_pred.item))
                        \ p.impossible_items, {})
        new_items == IF Total(items) > 0
                     THEN Renormalize(items) ELSE p.item_probs
        moves == Mix(p.move_probs, ml_pred.moves, k,
                     Keys(p.move_probs) \cup Keys(ml_pred.moves),
                     p.revealed_moves)
        tera == Mix(p.tera_probs, ml_pred.tera, k,
                    Keys(p.tera_probs) \cup Keys(ml_pred.tera), {})
        new_tera == IF Total(tera) > 0 THEN Renormalize(tera) ELSE p.tera_probs
    IN [p EXCEPT !.item_probs = new_items,
                 !.move_probs = Canon(moves),
                 !.tera_probs = new_tera]

\* The ML output always carries the keys 'item', 'moves' and 'tera'
\* (MLPredictor.predict fills all three).  The top-50 cut of the move map
\* keeps every name: the model has fewer than 50 move names.
blend_predictions(p, ml_pred, k) ==
    LET items == Mix(p.item_probs, ml_pred.item, k,
                     (Keys(p.item_probs) \cup Keys(ml_pred.item))
                        \ p.impossible_items, {})
        new_items == IF p.revealed_item = None /\ Total(items) > 0
                     THEN Renormalize(items) ELSE p.item_probs
        moves == Mix(p.move_probs, ml_pred.moves, k,
                     Keys(p.move_probs) \cup Keys(ml_pred.moves),
                     p.revealed_moves)
        tera == Mix(p.tera_probs, ml_pred.tera, k,
                    Keys(p.tera_probs) \cup Keys(ml_pred.tera), {})
        new_tera == IF Total(tera) > 0 THEN Renormalize(tera) ELSE p.tera_probs
    IN [p EXCEPT !.item_probs = new_items,
                 !.move_probs = Canon(moves),
                 !.tera_probs = new_tera]

\* outputs of the external learned model (MLPredictor.predict)
MLPredictions ==
    {[item |-> [w |-> ("Choice Band" :> 1 @@ "Leftovers" :> 1), d |-> 2],
      moves |-> [w |-> ("Earthquake" :> 2 @@ "Thunderbolt" :> 1), d |-> 2],
      tera |-> [w |-> ("Fire" :> 1), d |-> 1]],
     [item |-> [w |-> ("Assault Vest" :> 3 @@ "Life Orb" :> 1), d |-> 4],
      moves |-> [w |-> ("U-turn" :> 1 @@ "Dragon Darts" :> 1), d |-> 2],
      tera |-> [w |-> ("Ghost" :> 1 @@ "Water" :> 3), d |-> 4]]}

\* variant: the blend runs whatever the weight
BlendRunsAtAnyWeight ==
    /\ is_trained
    /\ current_battle_context.set

\* `self.ml_predictor.is_trained and self.current_battle_context` and
\* `ml_weight > 0`: the blend runs
BlendRuns ==
    /\ is_trained
    /\ current_battle_context.set
    /\ calculate_ml_weight(battle_history) > 0

MLChoices == IF BlendRuns THEN MLPredictions ELSE {CHOOSE m \in MLPredictions : TRUE}

\* ml_predictor.predict is called only where the blend runs; the call
\* returns its predictions or raises
PredictFails == IF BlendRuns THEN BOOLEAN ELSE {FALSE}

hybrid_create_initial_prediction(pokemon_name, ml_predictions) ==
    LET p == create_initial_prediction(pokemon_name)
    IN IF BlendRuns
       THEN blend_predictions(p, ml_predictions,
                              calculate_ml_weight(battle_history))
       ELSE p

hybrid_update_with_move(p, move_name, ml_predictions) ==
    LET p1 == update_with_move(p, move_name)
    IN IF BlendRuns
       THEN blend_predictions(p1, ml_predictions,
                              calculate_ml_weight(battle_history))
       ELSE p1

\* ------------------------------------------------ NicheMechanicsDetector
\* NicheMechanicsDetector.paradox_pokemon
paradox_pokemon ==
    [p \in {"Iron Valiant", "Iron Treads", "Iron Moth", "Iron Hands",
            "Iron Jugulis", "Iron Thorns", "Iron Bundle", "Iron Crown",
            "Iron Boulder", "Iron Leaves"} |-> "Quark Drive"]
    @@ [p \in {"Great Tusk", "Scream Tail", "Brute Bonnet", "Flutter Mane",
               "Slither Wing", "Sandy Shocks", "Roaring Moon", "Walking Wake",
               "Gouging Fire", "Raging Bolt"} |-> "Protosynthesis"]

\* the dataclass MechanicConstraint (reason text left out); probability_boosts
\* maps a name to its multiplier; returned = FALSE stands for a None result
MechanicConstraint(ruled_out_items, ruled_out_abilities, confirmed_items, confirmed_abilities, probability_boosts) ==
    [returned |-> TRUE,
     ruled_out_items |-> ruled_out_items,
     ruled_out_abilities |-> ruled_out_abilities,
     confirmed_items |-> confirmed_items,
     confirmed_abilities |-> confirmed_abilities,
     probability_boosts |-> probability_boosts]

\* `return None`
NoConstraint ==
    [returned |-> FALSE,
     ruled_out_items |-> {},
     ruled_out_abilities |-> {},
     confirmed_items |-> {},
     confirmed_abilities |-> {},
     probability_boosts |-> EmptyFcn]

\* the detector has not been called yet
NoCall == [method |-> None, result |-> NoConstraint]

\* an empty-handed constraint that only names the ability that explains it
Explained(confirmed_abilities) ==
    MechanicConstraint({}, {}, {}, confirmed_abilities, EmptyFcn)

detect_paradox_booster_energy(pokemon, ability_activated, weather_active, terrain_active) ==
    IF pokemon \notin DOMAIN paradox_pokemon THEN NoConstraint
    ELSE LET ability == paradox_pokemon[pokemon] IN
         IF ~ability_activated THEN NoConstraint
         ELSE IF ability = "Protosynthesis" /\ weather_active = "Sun"
              THEN Explained({ability})
         ELSE IF ability = "Quark Drive" /\ terrain_active = "Electric Terrain"
              THEN Explained({ability})
         ELSE IF ability = "Protosynthesis" /\ weather_active # "Sun"
              THEN MechanicConstraint({}, {}, {"Booster Energy"}, {ability},
                                      [k \in {"Booster Energy"} |-> 100])
         ELSE IF ability = "Quark Drive" /\ terrain_active # "Electric Terrain"
              THEN MechanicConstraint({}, {}, {"Booster Energy"}, {ability},
                                      [k \in {"Booster Energy"} |-> 100])
         ELSE NoConstraint

detect_status_orb_activation_ignoring_damage(pokemon, status_inflicted, ability, took_damage) ==
    IF status_inflicted = "burn"
    THEN MechanicConstraint({}, {}, {}, {},
             [k \in {"Flame Orb"} |->
                 IF ability \in {"Guts", "Marvel Scale", "Quick Feet"}
                 THEN 20 ELSE 5])
    ELSE IF status_inflicted \in {"poison", "badly poisoned"}
    THEN MechanicConstraint({}, {}, {}, {},
             [k \in {"Toxic Orb"} |->
                 IF ability = "Poison Heal" THEN 30 ELSE 5])
    ELSE NoConstraint

detect_status_orb_activation(pokemon, status_inflicted, ability, took_damage) ==
    IF status_inflicted = "burn" /\ ~took_damage
    THEN MechanicConstraint({}, {}, {}, {},
             [k \in {"Flame Orb"} |->
                 IF ability \in {"Guts", "Marvel Scale", "Quick Feet"}
                 THEN 20 ELSE 5])
    ELSE IF status_inflicted \in {"poison", "badly poisoned"} /\ ~took_damage
    THEN MechanicConstraint({}, {}, {}, {},
             [k \in {"Toxic Orb"} |->
                 IF ability = "Poison Heal" THEN 30 ELSE 5])
    ELSE NoConstraint

detect_heavy_duty_boots_ignoring_levitate(pokemon, pokemon_types, hazard_type, took_hazard_damage, ability, revealed_item) ==
    IF revealed_item # None THEN NoConstraint
    ELSE IF took_hazard_damage
    THEN MechanicConstraint({"Heavy-Duty Boots"}, {}, {}, {}, EmptyFcn)
    ELSE IF hazard_type = "Stealth Rock"
    THEN IF ability = "Magic Guard" THEN Explained({"Magic Guard"})
         ELSE MechanicConstraint({}, {}, {"Heavy-Duty Boots"}, {},
                                 [k \in {"Heavy-Duty Boots"} |-> 100])
    ELSE IF hazard_type \in {"Spikes", "Sticky Web"}
    THEN IF "Flying" \in pokemon_types THEN Explained({})
         ELSE IF ability = "Magic Guard" THEN Explained({"Magic Guard"})
         ELSE MechanicConstraint({}, {}, {}, {},
                  [k \in {"Heavy-Duty Boots", "Air Balloon"} |-> 3])
    ELSE IF hazard_type = "Toxic Spikes"
    THEN IF "Poison" \in pokemon_types THEN Explained({})
         ELSE IF "Steel" \in pokemon_types THEN Explained({})
         ELSE IF "Flying" \in pokemon_types THEN Explained({})
         ELSE IF ability = "Magic Guard" THEN Explained({"Magic Guard"})
         ELSE MechanicConstraint({}, {}, {}, {},
                  [k \in {"Heavy-Duty Boots", "Air Balloon"} |-> 3])
    ELSE NoConstraint

detect_heavy_duty_boots_uneven_boost(pokemon, pokemon_types, hazard_type, took_hazard_damage, ability, revealed_item) ==
    IF revealed_item # None THEN NoConstraint
    ELSE IF took_hazard_damage
    THEN MechanicConstraint({"Heavy-Duty Boots"}, {}, {}, {}, EmptyFcn)
    ELSE IF hazard_type = "Stealth Rock"
    THEN IF ability = "Magic Guard" THEN Explained({"Magic Guard"})
         ELSE MechanicConstraint({}, {}, {"Heavy-Duty Boots"}, {},
                                 [k \in {"Heavy-Duty Boots"} |-> 100])
    ELSE IF hazard_type \in {"Spikes", "Sticky Web"}
    THEN IF "Flying" \in pokemon_types THEN Explained({})
         ELSE IF ability = "Levitate" THEN Explained({"Levitate"})
         ELSE IF ability = "Magic Guard" THEN Explained({"Magic Guard"})
         ELSE MechanicConstraint({}, {}, {}, {},
                  [k \in {"Heavy-Duty Boots", "Air Balloon"} |-> 3])
    ELSE IF hazard_type = "Toxic Spikes"
    THEN IF "Poison" \in pokemon_types THEN Explained({})
         ELSE IF "Steel" \in pokemon_types THEN Explained({})
         ELSE IF "Flying" \in pokemon_types THEN Explained({})
         ELSE IF ability = "Levitate" THEN Explained({"Levitate"})
         ELSE IF ability = "Magic Guard" THEN Explained({"Magic Guard"})
         ELSE MechanicConstraint({}, {}, {}, {},
                  [k \in {"Heavy-Duty Boots", "Air Balloon"} |->
                      IF k = "Air Balloon" THEN 2 ELSE 3])
    ELSE NoConstraint

detect_heavy_duty_boots(pokemon, pokemon_types, hazard_type, took_hazard_damage, ability, revealed_item) ==
    IF revealed_item # None THEN NoConstraint
    ELSE IF took_hazard_damage
    THEN MechanicConstraint({"Heavy-Duty Boots"}, {}, {}, {}, EmptyFcn)
    ELSE IF hazard_type = "Stealth Rock"
    THEN IF ability = "Magic Guard" THEN Explained({"Magic Guard"})
         ELSE MechanicConstraint({}, {}, {"Heavy-Duty Boots"}, {},
                                 [k \in {"Heavy-Duty Boots"} |-> 100])
    ELSE IF hazard_type \in {"Spikes", "Sticky Web"}
    THEN IF "Flying" \in pokemon_types THEN Explained({})
         ELSE IF ability = "Levitate" THEN Explained({"Levitate"})
         ELSE IF ability = "Magic Guard" THEN Explained({"Magic Guard"})
         ELSE MechanicConstraint({}, {}, {}, {},
                  [k \in {"Heavy-Duty Boots", "Air Balloon"} |-> 3])
    ELSE IF hazard_type = "Toxic Spikes"
    THEN IF "Poison" \in pokemon_types THEN Explained({})
         ELSE IF "Steel" \in pokemon_types THEN Explained({})
         ELSE IF "Flying" \in pokemon_types THEN Explained({})
         ELSE IF ability = "Levitate" THEN Explained({"Levitate"})
         ELSE IF ability = "Magic Guard" THEN Explained({"Magic Guard"})
         ELSE MechanicConstraint({}, {}, {}, {},
                  [k \in {"Heavy-Duty Boots", "Air Balloon"} |-> 3])
    ELSE NoConstraint

\* ------------------------------------------ BattleRecorder and retraining
\* MLConfig defaults
min_battles_required == 50
retrain_interval == 50

\* variant: a record handed in without an active battle opens one
record_pokemon_opening_battle(battle) ==
    [battle |-> [active |-> TRUE, pokemon |-> battle.pokemon + 1], error |-> FALSE]

\* BattleRecorder.record_pokemon on the active battle (a count of its
\* records), or the ValueError 'No active battle'
record_pokemon(battle) ==
    IF ~battle.active THEN [battle |-> battle, error |-> TRUE]
    ELSE [battle |-> [battle EXCEPT !.pokemon = @ + 1], error |-> FALSE]

\* variant: the battle saved stays the current battle
recorder_end_battle_keeping_battle(history, pokemon, battle) ==
    IF ~battle.active
    THEN [battle_history |-> history, history_pokemon |-> pokemon, current_battle |-> battle]
    ELSE [battle_history |-> history + 1,
          history_pokemon |-> pokemon + battle.pokemon,
          current_battle |-> battle]

\* BattleRecorder.end_battle: the history as a count of battles and the
\* count of creature records it holds (the rows export_for_ml writes)
recorder_end_battle(history, pokemon, battle) ==
    IF ~battle.active
    THEN [battle_history |-> history, history_pokemon |-> pokemon, current_battle |-> battle]
    ELSE [battle_history |-> history + 1,
          history_pokemon |-> pokemon + battle.pokemon,
          current_battle |-> [active |-> FALSE, pokemon |-> 0]]

\* MLPredictor.should_train
should_train(num_battles) ==
    IF num_battles < min_battles_required THEN FALSE
    ELSE IF ~is_trained THEN TRUE
    ELSE num_battles - last_train_battle_count >= retrain_interval

\* MLPredictor.train raises on fewer rows than min_battles_required;
\* _retrain_models catches whatever it raises
train_succeeds(battle_records) == battle_records >= min_battles_required

RecordedSpecies == {"Missingno"}

\* what an earlier session left on disk: the battle history _load_history
\* reads and the trained flag and count load_models restores
LoadedHistories ==
    { [battle_history |-> 98, history_pokemon |-> 98, is_trained |-> TRUE,
       trained_at |-> 50, last_train_battle_count |-> 50],
      [battle_history |-> 98, history_pokemon |-> 196, is_trained |-> TRUE,
       trained_at |-> 50, last_train_battle_count |-> 100],
      [battle_history |-> 98, history_pokemon |-> 49, is_trained |-> FALSE,
       trained_at |-> 0, last_train_battle_count |-> 0] }

\* ---------------------------------------------------- PokemonShowdownParser
\* A log line is held as the list of its pipe-separated fields, which is
\* what line.split('|') returns: "|turn|5" is <<"", "turn", "5">>.

\* int(text) for the numerals of the model; any other text raises ValueError
int_literal == ("1" :> 1 @@ "2" :> 2)

\* float(text), likewise
float_literal == ("0" :> 0 @@ "50" :> 50 @@ "65" :> 65 @@ "100" :> 100)

\* hp_status.split()
split_whitespace ==
    ("100/100" :> <<"100/100">> @@ "65/100" :> <<"65/100">>
     @@ "65/100 par" :> <<"65/100", "par">> @@ "abc/100" :> <<"abc/100">>
     @@ "50/0" :> <<"50/0">> @@ "0 fnt" :> <<"0", "fnt">> @@ "" :> <<>>)

\* hp_part.split('/')
split_slash ==
    ("100/100" :> <<"100", "100">> @@ "65/100" :> <<"65", "100">>
     @@ "abc/100" :> <<"abc", "100">> @@ "50/0" :> <<"50", "0">>
     @@ "0" :> <<"0">>)

\* details.split(',')[0].strip()
species_of_details ==
    ("Kingambit, L50, M" :> "Kingambit" @@ "Great Tusk, L50" :> "Great Tusk")

\* parts[3] when it starts with '[from]', stripped of '[from] item:' and
\* '[from] ability:'
heal_source ==
    ("[from] item: Leftovers" :> "Leftovers"
     @@ "[from] ability: Regenerator" :> "Regenerator")

\* parts[1].replace('move:', '').strip()
terrain_name ==
    ("move: Electric Terrain" :> "Electric Terrain" @@ "Grassy Terrain" :> "Grassy Terrain")

\* the side texts with 'p1' in them
names_p1 == {"p1: Player"}

\* _parse_pokemon_id: "p2a: Kingambit" -> (player, position, nickname)
parse_pokemon_id ==
    ("p2a: Kingambit" :> [player |-> "p2", position |-> "a", nickname |-> "Kingambit"]
     @@ "p1a: Great Tusk" :> [player |-> "p1", position |-> "a", nickname |-> "Great Tusk"])

\* _parse_hp: the percentage as a fraction, or the exception that escapes
parse_hp(hp_status) ==
    IF Len(split_whitespace[hp_status]) = 0
    THEN [error |-> "IndexError", hp |-> <<0, 1>>]
    ELSE LET hp_part == split_whitespace[hp_status][1]
             pieces == split_slash[hp_part]
         IN IF Len(pieces) >= 2
            THEN IF Len(pieces) # 2
                    \/ pieces[1] \notin DOMAIN float_literal
                    \/ pieces[2] \notin DOMAIN float_literal
                 THEN [error |-> "ValueError", hp |-> <<0, 1>>]
                 ELSE IF float_literal[pieces[2]] = 0
                 THEN [error |-> "ZeroDivisionError", hp |-> <<0, 1>>]
                 ELSE [error |-> None,
                       hp |-> RNorm(float_literal[pieces[1]] * 100,
                                    float_literal[pieces[2]])]
            ELSE [error |-> None, hp |-> <<100, 1>>]

\* the dataclass BattleEvent with its defaults (details None is the empty map)
BattleEvent(event_type, turn, player) ==
    [event_type |-> event_type, turn |-> turn, player |-> player,
     pokemon |-> None, move |-> None, item |-> None, ability |-> None,
     damage |-> None, status |-> None, weather |-> None, terrain |-> None,
     details |-> EmptyFcn]

\* PokemonShowdownParser.__init__; battle_state['p1'] and ['p2'] together
\* are the map pokemon, keyed by player and position
PokemonShowdownParser ==
    [current_turn |-> 0,
     battle_state |-> [pokemon |-> EmptyFcn, weather |-> None, terrain |-> None,
                       hazards |-> [p1 |-> <<>>, p2 |-> <<>>]],
     events |-> <<>>]

\* what one call of parse_line leaves: the parser, the event returned (none
\* for a None result) and the exception it let escape, if any
Parsed(self, event) == [parser |-> self, event |-> <<event>>, error |-> None]
NoEvent(self) == [parser |-> self, event |-> <<>>, error |-> None]
Escapes(self, exception) == [parser |-> self, event |-> <<>>, error |-> exception]

\* self.battle_state.get(player, {}).get(position, {}).get('species')
SpeciesAt(self, id) ==
    IF <<id.player, id.position>> \in DOMAIN self.battle_state.pokemon
    THEN self.battle_state.pokemon[<<id.player, id.position>>].species
    ELSE None

\* `if player in self.battle_state and position in self.battle_state[player]`
\* followed by an assignment to one key of that creature's entry
SetAt(self, id, key, value) ==
    IF <<id.player, id.position>> \in DOMAIN self.battle_state.pokemon
    THEN [self EXCEPT !.battle_state.pokemon[<<id.player, id.position>>] =
            [k \in DOMAIN @ |-> IF k = key THEN value ELSE @[k]]]
    ELSE self

parse_switch(self, parts) ==
    IF Len(parts) < 4 THEN NoEvent(self)
    ELSE LET id == parse_pokemon_id[parts[2]]
             species == species_of_details[parts[3]]
             current_hp == parse_hp(parts[4])
             entry == [species |-> species, nickname |-> id.nickname,
                       hp |-> current_hp.hp, status |-> None,
                       revealed_moves |-> {}, revealed_ability |-> None,
                       revealed_item |-> None]
         IN IF current_hp.error # None THEN Escapes(self, current_hp.error)
            ELSE Parsed([self EXCEPT !.battle_state.pokemon =
                            (<<id.player, id.position>> :> entry) @@ @],
                        [BattleEvent("switch", self.current_turn, id.player)
                            EXCEPT !.pokemon = species,
                                   !.details = [nickname |-> id.nickname,
                                                position |-> id.position,
                                                hp |-> current_hp.hp]])

parse_move(self, parts) ==
    IF Len(parts) < 3 THEN NoEvent(self)
    ELSE LET id == parse_pokemon_id[parts[2]]
             move == parts[3]
             species == SpeciesAt(self, id)
             tracked == IF species # None
                        THEN [self EXCEPT !.battle_state.pokemon[<<id.player, id.position>>].revealed_moves = @ \cup {move}]
                        ELSE self
         IN Parsed(tracked,
                   [BattleEvent("move", self.current_turn, id.player)
                        EXCEPT !.pokemon = species, !.move = move,
                               !.details = [position |-> id.position]])

parse_damage(self, parts) ==
    IF Len(parts) < 3 THEN NoEvent(self)
    ELSE LET id == parse_pokemon_id[parts[2]]
             current_hp == parse_hp(parts[3])
         IN IF current_hp.error # None THEN Escapes(self, current_hp.error)
            ELSE Parsed(SetAt(self, id, "hp", current_hp.hp),
                        [BattleEvent("damage", self.current_turn, id.player)
                            EXCEPT !.pokemon = SpeciesAt(self, id),
                                   !.damage = parts[3],
                                   !.details = [hp |-> current_hp.hp]])

parse_heal(self, parts) ==
    IF Len(parts) < 3 THEN NoEvent(self)
    ELSE LET id == parse_pokemon_id[parts[2]]
             current_hp == parse_hp(parts[3])
             source == IF Len(parts) >= 4 /\ parts[4] \in DOMAIN heal_source
                       THEN heal_source[parts[4]] ELSE None
         IN IF current_hp.error # None THEN Escapes(self, current_hp.error)
            ELSE Parsed(SetAt(self, id, "hp", current_hp.hp),
                        [BattleEvent("heal", self.current_turn, id.player)
                            EXCEPT !.pokemon = SpeciesAt(self, id),
                                   !.details = [hp |-> current_hp.hp,
                                                source |-> source]])

parse_status(self, parts) ==
    IF Len(parts) < 3 THEN NoEvent(self)
    ELSE LET id == parse_pokemon_id[parts[2]]
         IN Parsed(SetAt(self, id, "status", parts[3]),
                   [BattleEvent("status", self.current_turn, id.player)
                        EXCEPT !.pokemon = SpeciesAt(self, id),
                               !.status = parts[3]])

parse_ability(self, parts) ==
    IF Len(parts) < 3 THEN NoEvent(self)
    ELSE LET id == parse_pokemon_id[parts[2]]
         IN Parsed(SetAt(self, id, "revealed_ability", parts[3]),
                   [BattleEvent("ability", self.current_turn, id.player)
                        EXCEPT !.pokemon = SpeciesAt(self, id),
                               !.ability = parts[3]])

parse_item(self, parts) ==
    IF Len(parts) < 3 THEN NoEvent(self)
    ELSE LET id == parse_pokemon_id[parts[2]]
         IN Parsed(SetAt(self, id, "revealed_item", parts[3]),
                   [BattleEvent("item", self.current_turn, id.player)
                        EXCEPT !.pokemon = SpeciesAt(self, id),
                               !.item = parts[3]])

parse_enditem(self, parts) ==
    IF Len(parts) < 3 THEN NoEvent(self)
    ELSE LET id == parse_pokemon_id[parts[2]]
         IN Parsed(self,
                   [BattleEvent("enditem", self.current_turn, id.player)
                        EXCEPT !.pokemon = SpeciesAt(self, id),
                               !.item = parts[3]])

parse_weather(self, parts) ==
    IF Len(parts) < 2 THEN NoEvent(self)
    ELSE Parsed([self EXCEPT !.battle_state.weather = parts[2]],
                [BattleEvent("weather", self.current_turn, "")
                    EXCEPT !.weather = parts[2]])

parse_terrain(self, parts) ==
    IF Len(parts) < 2 THEN NoEvent(self)
    ELSE LET terrain_str == terrain_name[parts[2]]
         IN Parsed([self EXCEPT !.battle_state.terrain = terrain_str],
                   [BattleEvent("terrain", self.current_turn, "")
                        EXCEPT !.terrain = terrain_str])

\* variant: the marker's own event carries the turn that was current before
parse_turn_stamping_old_turn(self, parts) ==
    IF Len(parts) < 2 THEN NoEvent(self)
    ELSE IF parts[2] \notin DOMAIN int_literal THEN Escapes(self, "ValueError")
    ELSE Parsed([self EXCEPT !.current_turn = int_literal[parts[2]]],
                BattleEvent("turn", self.current_turn, ""))

parse_turn(self, parts) ==
    IF Len(parts) < 2 THEN NoEvent(self)
    ELSE IF parts[2] \notin DOMAIN int_literal THEN Escapes(self, "ValueError")
    ELSE Parsed([self EXCEPT !.current_turn = int_literal[parts[2]]],
                BattleEvent("turn", int_literal[parts[2]], ""))

parse_sidestart(self, parts) ==
    IF Len(parts) < 3 THEN NoEvent(self)
    ELSE LET side == IF parts[2] \in names_p1 THEN "p1" ELSE "p2"
         IN Parsed([self EXCEPT !.battle_state.hazards[side] = Append(@, parts[3])],
                   [BattleEvent("hazard", self.current_turn, side)
                        EXCEPT !.details = [hazard |-> parts[3]]])

parse_faint(self, parts) ==
    IF Len(parts) < 2 THEN NoEvent(self)
    ELSE LET id == parse_pokemon_id[parts[2]]
         IN Parsed(self,
                   [BattleEvent("faint", self.current_turn, id.player)
                        EXCEPT !.pokemon = SpeciesAt(self, id)])

parse_boost(self, parts) ==
    IF Len(parts) < 4 THEN NoEvent(self)
    ELSE LET id == parse_pokemon_id[parts[2]]
         IN IF parts[4] \notin DOMAIN int_literal THEN Escapes(self, "ValueError")
            ELSE Parsed(self,
                        [BattleEvent("boost", self.current_turn, id.player)
                            EXCEPT !.pokemon = SpeciesAt(self, id),
                                   !.details = [stat |-> parts[3],
                                                amount |-> int_literal[parts[4]]]])

\* parse_line; parts[0] of the code is parts[1] here
parse_line(self, line) ==
    IF line = <<"">> \/ line[1] # "" THEN NoEvent(self)
    ELSE LET parts == Tail(line)
             command == parts[1]
         IN CASE command \in {"switch", "drag"} -> parse_switch(self, parts)
              [] command = "move" -> parse_move(self, parts)
              [] command = "-damage" -> parse_damage(self, parts)
              [] command = "-heal" -> parse_heal(self, parts)
              [] command = "-status" -> parse_status(self, parts)
              [] command = "-ability" -> parse_ability(self, parts)
              [] command = "-item" -> parse_item(self, parts)
              [] command = "-enditem" -> parse_enditem(self, parts)
              [] command \in {"weather", "-weather"} -> parse_weather(self, parts)
              [] command \in {"terrain", "-fieldstart"} -> parse_terrain(self, parts)
              [] command = "turn" -> parse_turn(self, parts)
              [] command = "-sidestart" -> parse_sidestart(self, parts)
              [] command = "faint" -> parse_faint(self, parts)
              [] command \in {"-boost", "-unboost"} -> parse_boost(self, parts)
              [] OTHER -> NoEvent(self)

\* lines of a battle log, well formed and not
LogLines ==
    { <<"", "turn", "1">>, <<"", "turn", "2">>, <<"", "turn", "one">>,
      <<"", "turn">>,
      <<"", "switch", "p2a: Kingambit", "Kingambit, L50, M", "100/100">>,
      <<"", "switch", "p2a: Kingambit", "Kingambit, L50, M">>,
      <<"", "move", "p2a: Kingambit", "Sucker Punch", "p1a: Great Tusk">>,
      <<"", "-damage", "p2a: Kingambit", "65/100 par">>,
      <<"", "-damage", "p2a: Kingambit", "0 fnt">>,
      <<"", "-damage", "p2a: Kingambit", "abc/100">>,
      <<"", "-damage", "p2a: Kingambit", "50/0">>,
      <<"", "-damage", "p2a: Kingambit", "">>,
      <<"", "-item", "p2a: Kingambit", "Leftovers">>,
      <<"", "-boost", "p2a: Kingambit", "atk", "2">>,
      <<"", "-boost", "p2a: Kingambit", "atk", "two">>,
      <<"", "-weather", "RainDance">>,
      <<"", "-heal", "p2a: Kingambit", "100/100", "[from] item: Leftovers">>,
      <<"", "-fieldstart", "move: Electric Terrain">>,
      <<"", "-sidestart", "p2: Player", "Stealth Rock">>,
      <<"", "chat", "hello">>, <<"hello">>, <<"">> }

\* ------------------------------------------------------------------ inputs
SpeciesNames == {"Dragapult", "Cinderace", "Great Tusk", "Ogerpon-Wellspring",
                 "Ogerpon-Hearthflame", "Missingno"}
MoveNames == {"Dragon Darts", "Thunderbolt", "U-turn", "Swords Dance", "Protect"}
AbilityNames == {"Quark Drive", "Infiltrator"}
ItemNames == {"Choice Band", "Leftovers", "Rare Candy"}
HistorySizes == {0, 50, 1000}
\* moves without any correlation entry, all damaging
PlainMoveNames == {"Dragon Darts", "Thunderbolt", "Ice Beam", "Shadow Ball",
                   "Fire Blast", "Hex"}

\* arguments handed to the mechanics detector
DetectorSpecies == {"Great Tusk", "Iron Valiant", "Dragapult"}
TypeLists == {{}, {"Dragon", "Ghost"}, {"Flying"}, {"Poison"}, {"Steel"},
              {"Steel", "Flying"}, {"Ground", "Fighting"}}
HazardTypes == {"Stealth Rock", "Spikes", "Toxic Spikes", "Sticky Web",
                "G-Max Steelsurge"}
DetectorAbilities == {None, "Levitate", "Magic Guard", "Guts", "Marvel Scale",
                      "Quick Feet", "Poison Heal", "Infiltrator"}
StatusNames == {None, "burn", "poison", "badly poisoned", "paralysis"}
WeatherNames == {None, "Sun", "Rain"}
TerrainNames == {None, "Electric Terrain", "Grassy Terrain"}
RevealedItems == {None, "Leftovers"}

\* raw usage percentages of one category as the statistics file may hold
\* them, rounded-to-zero entries included
PriorWeightMaps ==
    {("Leftovers" :> 0),
     ("Heavy-Duty Boots" :> 0 @@ "Leftovers" :> 0),
     ("Heavy-Duty Boots" :> 40 @@ "Leftovers" :> 0),
     ("Assault Vest" :> 100),
     ("Heavy-Duty Boots" :> 60 @@ "Leftovers" :> 20)}

\* ------------------------------------------- two creatures in one process
\* Python containers are objects: a belief's seven container fields hold
\* references, and an in-place update reaches every holder of the object.
\* creatures.heap maps an address to the container stored there,
\* creatures.refs gives each creature's SetPrediction with addresses in its
\* container fields, creatures.streams the observations each one was fed.
CreatureIds == {"a", "b"}
ContainerFields == {"revealed_moves", "ability_probs", "item_probs", "move_probs", "spread_probs", "tera_probs", "impossible_items"}
SetFields == {"revealed_moves", "impossible_items"}
PriorCategories == {"abilities", "items", "moves", "spreads", "tera_types"}
CreatureSpecies == {"Dragapult", "Cinderace", "Missingno"}
CreatureMoves == {"U-turn", "Protect"}
CreatureItems == {"Leftovers"}

\* the dict of one category of one species in the loaded statistics
TableAddress(species, category) == <<"table", species, category>>

\* variant: the belief keeps the statistics' own item dict
ContainerAddress_sharing_prior(id, pokemon_name, field) ==
    IF field = "item_probs" /\ pokemon_name \in DOMAIN moveset_stats
    THEN TableAddress(pokemon_name, "items")
    ELSE <<"belief", id, field>>

\* The container create_initial_prediction leaves in a field is a new
\* object: default_factory builds the sets, _normalize_probs returns a dict
\* comprehension or a fresh {}.
ContainerAddress(id, pokemon_name, field) == <<"belief", id, field>>

TableAddresses == {TableAddress(s, c) : s \in DOMAIN moveset_stats, c \in PriorCategories}

BeliefAddresses == {<<"belief", id, f>> : id \in CreatureIds, f \in ContainerFields}

\* the statistics as loaded (percentages), and no belief yet
InitialCreatures ==
    [heap |-> [x \in TableAddresses \cup BeliefAddresses |->
                IF x \in TableAddresses
                THEN [w |-> moveset_stats[x[2]][x[3]], d |-> 100]
                ELSE IF x[3] \in SetFields THEN {} ELSE EmptyDist],
     refs |-> [id \in CreatureIds |->
                [SetPrediction(None) EXCEPT
                    !.revealed_moves = <<"belief", id, "revealed_moves">>,
                    !.ability_probs = <<"belief", id, "ability_probs">>,
                    !.item_probs = <<"belief", id, "item_probs">>,
                    !.move_probs = <<"belief", id, "move_probs">>,
                    !.spread_probs = <<"belief", id, "spread_probs">>,
                    !.tera_probs = <<"belief", id, "tera_probs">>,
                    !.impossible_items = <<"belief", id, "impossible_items">>]],
     streams |-> [id \in CreatureIds |-> <<>>]]

\* the SetPrediction a creature's references denote
Deref(c, id) ==
    [f \in DOMAIN c.refs[id] |->
        IF f \in ContainerFields THEN c.heap[c.refs[id][f]] ELSE c.refs[id][f]]

\* the belief q written through the references r of creature id
Stored(c, id, r, q, observation) ==
    [heap |-> [x \in DOMAIN c.heap |->
                IF \E f \in ContainerFields : r[f] = x
                THEN q[CHOOSE f \in ContainerFields : r[f] = x]
                ELSE c.heap[x]],
     refs |-> [c.refs EXCEPT ![id] =
                [f \in DOMAIN r |-> IF f \in ContainerFields THEN r[f] ELSE q[f]]],
     streams |-> [c.streams EXCEPT ![id] = Append(@, observation)]]

\* ----------------------------------------------------------------- actions
Created == prediction.pokemon # None

\* a move reveal that reweights softly (correlation boost or blend)
IsSoft(m) ==
    \/ m \in DOMAIN move_synergies
    \/ m \in DOMAIN move_item_hints
    \/ BlendRuns

Init ==
    /\ prediction = SetPrediction(None)
    /\ is_trained \in BOOLEAN
    /\ battle_history \in HistorySizes
    /\ current_battle_context = [set |-> FALSE, turn_number |-> 0, pokemon_seen |-> {}]
    /\ current_battle = [active |-> FALSE, pokemon |-> 0]
    /\ soft_count = 0
    /\ obs_count = 0
    /\ mechanics = NoCall
    /\ raised = FALSE
    /\ creatures = InitialCreatures
    /\ history_pokemon = 0
    /\ last_train_battle_count = 0
    /\ trained_at = 0
    /\ recorder_error = FALSE
    /\ parser = PokemonShowdownParser
    /\ parse_error = None

SetBattleContext ==
    /\ ~raised
    /\ current_battle_context' = [set |-> TRUE, turn_number |-> 0, pokemon_seen |-> {}]
    /\ current_battle' = [active |-> TRUE, pokemon |-> 0]
    /\ UNCHANGED <<parser, parse_error, history_pokemon, last_train_battle_count, trained_at, recorder_error, creatures, mechanics, raised, prediction, is_trained, battle_history, soft_count, obs_count>>

\* The call of ml_predictor.predict is not wrapped in try/except: when it
\* raises, the exception leaves the method before anything is tracked or
\* returned.
CreateInitialPrediction ==
    /\ ~Created
    /\ ~raised
    /\ \E name \in SpeciesNames, ml \in MLChoices, fails \in PredictFails :
        /\ raised' = fails
        /\ prediction' = IF fails THEN prediction
                         ELSE hybrid_create_initial_prediction(name, ml)
        /\ current_battle_context' =
             IF current_battle_context.set /\ ~fails
             THEN [current_battle_context EXCEPT !.pokemon_seen = @ \cup {name}]
             ELSE current_battle_context
        /\ soft_count' = IF BlendRuns /\ ~fails
                         THEN soft_count + 1 ELSE soft_count
    /\ UNCHANGED <<parser, parse_error, history_pokemon, last_train_battle_count, trained_at, recorder_error, creatures, mechanics, is_trained, battle_history, current_battle, obs_count>>

\* The base update has already changed the belief in place when
\* ml_predictor.predict raises.
UpdateWithMove ==
    /\ Created
    /\ ~raised
    /\ prediction.turns_seen < MaxTurns
    /\ \E m \in MoveNames, ml \in MLChoices, fails \in PredictFails :
        /\ IsSoft(m) => soft_count < MaxSoft
        /\ raised' = fails
        /\ prediction' = IF fails THEN update_with_move(prediction, m)
                         ELSE hybrid_update_with_move(prediction, m, ml)
        /\ soft_count' = IF IsSoft(m) THEN soft_count + 1 ELSE soft_count
    /\ UNCHANGED <<parser, parse_error, history_pokemon, last_train_battle_count, trained_at, recorder_error, creatures, mechanics, is_trained, battle_history, current_battle_context,
                   current_battle, obs_count>>

UpdateWithAbility ==
    /\ Created
    /\ ~raised
    /\ prediction.turns_seen < MaxTurns
    /\ \E a \in AbilityNames : prediction' = update_with_ability(prediction, a)
    /\ UNCHANGED <<parser, parse_error, history_pokemon, last_train_battle_count, trained_at, recorder_error, creatures, mechanics, raised, is_trained, battle_history, current_battle_context,
                   current_battle, soft_count, obs_count>>

UpdateWithItem ==
    /\ Created
    /\ ~raised
    /\ prediction.turns_seen < MaxTurns
    /\ \E i \in ItemNames : prediction' = update_with_item(prediction, i)
    /\ UNCHANGED <<parser, parse_error, history_pokemon, last_train_battle_count, trained_at, recorder_error, creatures, mechanics, raised, is_trained, battle_history, current_battle_context,
                   current_battle, soft_count, obs_count>>

ApplyDamageConstraints ==
    /\ Created
    /\ ~raised
    /\ obs_count < MaxObs
    /\ \E hz \in BOOLEAN, heal \in BOOLEAN, rec \in BOOLEAN :
        prediction' = apply_damage_constraints(prediction, hz, heal, rec)
    /\ obs_count' = obs_count + 1
    /\ UNCHANGED <<parser, parse_error, history_pokemon, last_train_battle_count, trained_at, recorder_error, creatures, mechanics, raised, is_trained, battle_history, current_battle_context,
                   current_battle, soft_count>>

ApplyAbilityActivationConstraint ==
    /\ Created
    /\ ~raised
    /\ obs_count < MaxObs
    /\ \E act \in BOOLEAN, sun \in BOOLEAN, et \in BOOLEAN :
        prediction' = apply_ability_activation_constraint(prediction, act, sun, et)
    /\ obs_count' = obs_count + 1
    /\ UNCHANGED <<parser, parse_error, history_pokemon, last_train_battle_count, trained_at, recorder_error, creatures, mechanics, raised, is_trained, battle_history, current_battle_context,
                   current_battle, soft_count>>

DetectParadoxBoosterEnergy ==
    /\ \E pokemon \in DetectorSpecies, ability_activated \in BOOLEAN,
          weather_active \in WeatherNames, terrain_active \in TerrainNames :
        mechanics' =
            [method |-> "detect_paradox_booster_energy",
             pokemon |-> pokemon,
             ability_activated |-> ability_activated,
             weather_active |-> weather_active,
             terrain_active |-> terrain_active,
             result |-> detect_paradox_booster_energy(
                            pokemon, ability_activated, weather_active,
                            terrain_active)]
    /\ UNCHANGED <<parser, parse_error, history_pokemon, last_train_battle_count, trained_at, recorder_error, creatures, raised, prediction, is_trained, battle_history,
                   current_battle_context, current_battle, soft_count,
                   obs_count>>

DetectStatusOrbActivation ==
    /\ \E pokemon \in DetectorSpecies, status_inflicted \in StatusNames,
          ability \in DetectorAbilities, took_damage \in BOOLEAN :
        mechanics' =
            [method |-> "detect_status_orb_activation",
             pokemon |-> pokemon,
             status_inflicted |-> status_inflicted,
             ability |-> ability,
             took_damage |-> took_damage,
             result |-> detect_status_orb_activation(
                            pokemon, status_inflicted, ability, took_damage)]
    /\ UNCHANGED <<parser, parse_error, history_pokemon, last_train_battle_count, trained_at, recorder_error, creatures, raised, prediction, is_trained, battle_history,
                   current_battle_context, current_battle, soft_count,
                   obs_count>>

DetectHeavyDutyBoots ==
    /\ \E pokemon \in DetectorSpecies, pokemon_types \in TypeLists,
          hazard_type \in HazardTypes, took_hazard_damage \in BOOLEAN,
          ability \in DetectorAbilities, revealed_item \in RevealedItems :
        mechanics' =
            [method |-> "detect_heavy_duty_boots",
             pokemon |-> pokemon,
             pokemon_types |-> pokemon_types,
             hazard_type |-> hazard_type,
             took_hazard_damage |-> took_hazard_damage,
             ability |-> ability,
             revealed_item |-> revealed_item,
             result |-> detect_heavy_duty_boots(
                            pokemon, pokemon_types, hazard_type,
                            took_hazard_damage, ability, revealed_item)]
    /\ UNCHANGED <<parser, parse_error, history_pokemon, last_train_battle_count, trained_at, recorder_error, creatures, raised, prediction, is_trained, battle_history,
                   current_battle_context, current_battle, soft_count,
                   obs_count>>

\* the hybrid predictor: every operation, with or without a trained model
Next ==
    \/ SetBattleContext
    \/ CreateInitialPrediction
    \/ UpdateWithMove
    \/ UpdateWithAbility
    \/ UpdateWithItem
    \/ ApplyDamageConstraints
    \/ ApplyAbilityActivationConstraint

Spec == Init /\ [][Next]_vars

\* the base SetPredictor: no learned model, no battle context, no blend
InitBase ==
    /\ Init
    /\ ~is_trained
    /\ battle_history = 0

NextBase ==
    \/ CreateInitialPrediction
    \/ UpdateWithMove
    \/ UpdateWithAbility
    \/ UpdateWithItem
    \/ ApplyDamageConstraints
    \/ ApplyAbilityActivationConstraint

SpecBase == InitBase /\ [][NextBase]_vars

\* the base SetPredictor fed a long run of move reveals
RevealMove ==
    /\ Created
    /\ ~raised
    /\ prediction.turns_seen < MaxRevealTurns
    /\ \E m \in PlainMoveNames, ml \in MLChoices :
        prediction' = hybrid_update_with_move(prediction, m, ml)
    /\ UNCHANGED <<parser, parse_error, history_pokemon, last_train_battle_count, trained_at, recorder_error, creatures, mechanics, raised, is_trained, battle_history, current_battle_context,
                   current_battle, soft_count, obs_count>>

NextMoves ==
    \/ CreateInitialPrediction
    \/ RevealMove

SpecMoves == InitBase /\ [][NextMoves]_vars

\* the hybrid predictor up to the first move reveal
NextCreation ==
    \/ SetBattleContext
    \/ CreateInitialPrediction
    \/ UpdateWithAbility
    \/ UpdateWithItem

SpecCreation == Init /\ [][NextCreation]_vars

\* the mechanics detector on its own: it keeps no state between calls
NextDetect ==
    \/ DetectParadoxBoosterEnergy
    \/ DetectStatusOrbActivation
    \/ DetectHeavyDutyBoots

SpecDetect == InitBase /\ [][NextDetect]_vars

\* ability activations seen by both the belief and the mechanics detector
NextActivation ==
    \/ CreateInitialPrediction
    \/ UpdateWithAbility
    \/ ApplyAbilityActivationConstraint
    \/ DetectParadoxBoosterEnergy

SpecActivation == InitBase /\ [][NextActivation]_vars

\* ------------------------------------------- two creatures: operations
CreatureCreated(id) == creatures.refs[id].pokemon # None

CreatureCreate ==
    \E id \in CreatureIds, name \in CreatureSpecies :
        /\ ~CreatureCreated(id)
        /\ creatures' =
            Stored(creatures, id,
                   [f \in DOMAIN creatures.refs[id] |->
                        IF f \in ContainerFields
                        THEN ContainerAddress(id, name, f)
                        ELSE creatures.refs[id][f]],
                   create_initial_prediction(name),
                   [op |-> "create", arg |-> name])
        /\ UNCHANGED <<parser, parse_error, history_pokemon, last_train_battle_count, trained_at, recorder_error, mechanics, raised, prediction, is_trained, battle_history, current_battle_context, current_battle, soft_count, obs_count>>

CreatureUpdateWithMove ==
    \E id \in CreatureIds, m \in CreatureMoves :
        /\ CreatureCreated(id)
        /\ Len(creatures.streams[id]) < MaxStream
        /\ creatures' =
            Stored(creatures, id, creatures.refs[id],
                   update_with_move(Deref(creatures, id), m),
                   [op |-> "move", arg |-> m])
        /\ UNCHANGED <<parser, parse_error, history_pokemon, last_train_battle_count, trained_at, recorder_error, mechanics, raised, prediction, is_trained, battle_history, current_battle_context, current_battle, soft_count, obs_count>>

CreatureUpdateWithItem ==
    \E id \in CreatureIds, i \in CreatureItems :
        /\ CreatureCreated(id)
        /\ Len(creatures.streams[id]) < MaxStream
        /\ creatures' =
            Stored(creatures, id, creatures.refs[id],
                   update_with_item(Deref(creatures, id), i),
                   [op |-> "item", arg |-> i])
        /\ UNCHANGED <<parser, parse_error, history_pokemon, last_train_battle_count, trained_at, recorder_error, mechanics, raised, prediction, is_trained, battle_history, current_battle_context, current_battle, soft_count, obs_count>>

CreatureApplyDamageConstraints ==
    \E id \in CreatureIds, heal \in BOOLEAN :
        /\ CreatureCreated(id)
        /\ Len(creatures.streams[id]) < MaxStream
        /\ creatures' =
            Stored(creatures, id, creatures.refs[id],
                   apply_damage_constraints(Deref(creatures, id), TRUE, heal, FALSE),
                   [op |-> "damage", arg |-> heal])
        /\ UNCHANGED <<parser, parse_error, history_pokemon, last_train_battle_count, trained_at, recorder_error, mechanics, raised, prediction, is_trained, battle_history, current_battle_context, current_battle, soft_count, obs_count>>

NextCreatures ==
    \/ CreatureCreate
    \/ CreatureUpdateWithMove
    \/ CreatureUpdateWithItem
    \/ CreatureApplyDamageConstraints

SpecCreatures == InitBase /\ [][NextCreatures]_vars

\* ---------------------------------------- battle recording and retraining
\* a further creature of the current battle: create_initial_prediction has
\* no precondition, the belief returned replaces the one tracked
SeePokemon ==
    /\ ~raised
    /\ current_battle_context.set
    /\ \E name \in RecordedSpecies, ml \in MLChoices, fails \in PredictFails :
        /\ raised' = fails
        /\ prediction' = IF fails THEN prediction
                         ELSE hybrid_create_initial_prediction(name, ml)
        /\ current_battle_context' =
             IF ~fails
             THEN [current_battle_context EXCEPT !.pokemon_seen = @ \cup {name}]
             ELSE current_battle_context
    /\ UNCHANGED <<parser, parse_error, history_pokemon, last_train_battle_count, trained_at, recorder_error, creatures, mechanics, is_trained, battle_history, current_battle, soft_count, obs_count>>

\* HybridSetPredictor.finalize_pokemon: returns early without a context or
\* for a creature never seen, otherwise hands one record to the recorder
FinalizePokemon ==
    /\ ~raised
    /\ ~recorder_error
    /\ \E pokemon_name \in RecordedSpecies :
        IF ~current_battle_context.set
           \/ pokemon_name \notin current_battle_context.pokemon_seen
        THEN UNCHANGED <<current_battle, recorder_error>>
        ELSE /\ current_battle.pokemon < MaxRecordsPerBattle
             /\ current_battle' = record_pokemon(current_battle).battle
             /\ recorder_error' = record_pokemon(current_battle).error
    /\ UNCHANGED <<parser, parse_error, history_pokemon, last_train_battle_count, trained_at, creatures, mechanics, raised, prediction, is_trained, battle_history, current_battle_context, soft_count, obs_count>>

\* HybridSetPredictor.end_battle: save the battle, retrain when due (a
\* failed training is caught and changes nothing), clear the context
EndBattle ==
    /\ ~raised
    /\ ~recorder_error
    /\ battle_history < MaxRecordedBattles
    /\ IF ~current_battle_context.set
       THEN UNCHANGED <<history_pokemon, last_train_battle_count, trained_at, is_trained, battle_history, current_battle_context, current_battle>>
       ELSE LET saved == recorder_end_battle(battle_history, history_pokemon, current_battle)
                num_battles == saved.battle_history
                training_data == saved.history_pokemon
                trains == should_train(num_battles) /\ train_succeeds(training_data)
            IN /\ battle_history' = saved.battle_history
               /\ history_pokemon' = saved.history_pokemon
               /\ current_battle' = saved.current_battle
               /\ is_trained' = (is_trained \/ trains)
               /\ last_train_battle_count' =
                    IF trains THEN training_data ELSE last_train_battle_count
               /\ trained_at' = IF trains THEN num_battles ELSE trained_at
               /\ current_battle_context' =
                    [set |-> FALSE, turn_number |-> 0, pokemon_seen |-> {}]
    /\ UNCHANGED <<parser, parse_error, recorder_error, creatures, mechanics, raised, prediction, soft_count, obs_count>>

\* a HybridSetPredictor constructed over the files of an earlier session
InitRetraining ==
    /\ prediction = SetPrediction(None)
    /\ current_battle_context = [set |-> FALSE, turn_number |-> 0, pokemon_seen |-> {}]
    /\ current_battle = [active |-> FALSE, pokemon |-> 0]
    /\ soft_count = 0
    /\ obs_count = 0
    /\ mechanics = NoCall
    /\ raised = FALSE
    /\ creatures = InitialCreatures
    /\ recorder_error = FALSE
    /\ parser = PokemonShowdownParser
    /\ parse_error = None
    /\ \E loaded \in LoadedHistories :
        /\ battle_history = loaded.battle_history
        /\ history_pokemon = loaded.history_pokemon
        /\ is_trained = loaded.is_trained
        /\ trained_at = loaded.trained_at
        /\ last_train_battle_count = loaded.last_train_battle_count

NextRetraining ==
    \/ SetBattleContext
    \/ SeePokemon
    \/ FinalizePokemon
    \/ EndBattle

SpecRetraining == InitRetraining /\ [][NextRetraining]_vars

\* ------------------------------------------- the BattleRecorder on its own
StartBattle ==
    /\ current_battle' = [active |-> TRUE, pokemon |-> 0]
    /\ UNCHANGED <<parser, parse_error, history_pokemon, last_train_battle_count, trained_at, recorder_error, creatures, mechanics, raised, prediction, is_trained, battle_history, current_battle_context, soft_count, obs_count>>

\* recorder_error tells whether the last record_pokemon call raised
RecordPokemon ==
    /\ current_battle.pokemon < MaxRecordsPerBattle
    /\ current_battle' = record_pokemon(current_battle).battle
    /\ recorder_error' = record_pokemon(current_battle).error
    /\ UNCHANGED <<parser, parse_error, history_pokemon, last_train_battle_count, trained_at, creatures, mechanics, raised, prediction, is_trained, battle_history, current_battle_context, soft_count, obs_count>>

RecorderEndBattle ==
    /\ battle_history < MaxRecordedBattles
    /\ LET saved == recorder_end_battle(battle_history, history_pokemon, current_battle)
       IN /\ battle_history' = saved.battle_history
          /\ history_pokemon' = saved.history_pokemon
          /\ current_battle' = saved.current_battle
    /\ UNCHANGED <<parser, parse_error, last_train_battle_count, trained_at, recorder_error, creatures, mechanics, raised, prediction, is_trained, current_battle_context, soft_count, obs_count>>

NextRecorder ==
    \/ StartBattle
    \/ RecordPokemon
    \/ RecorderEndBattle

SpecRecorder == InitRetraining /\ [][NextRecorder]_vars

\* ------------------------------------------------------ parse_battle_log
\* one turn of the loop of parse_battle_log: an event returned is appended;
\* an exception leaves the loop with the remaining lines unread
ParseLine(line) ==
    /\ parse_error = None
    /\ Len(parser.events) < MaxEvents
    /\ LET parsed == parse_line(parser, line)
       IN /\ parse_error' = parsed.error
          /\ parser' = IF parsed.event # <<>>
                       THEN [parsed.parser EXCEPT !.events = Append(@, parsed.event[1])]
                       ELSE parsed.parser
    /\ UNCHANGED <<history_pokemon, last_train_battle_count, trained_at, recorder_error, creatures, mechanics, raised, prediction, is_trained, battle_history, current_battle_context, current_battle, soft_count, obs_count>>

ParseBattleLog == \E line \in LogLines : ParseLine(line)

NextParser == ParseBattleLog

SpecParser == InitBase /\ [][NextParser]_vars

\* ================================================================= claims
\* a distribution is empty, or non-negative and summing to 1
IsDistribution(dist) ==
    \/ Keys(dist) = {}
    \/ /\ \A k \in Keys(dist) : dist.w[k] >= 0
       /\ Total(dist) = dist.d

\* no observation other than move reveals has been applied, and every
\* reveal named a new move
OnlyDistinctMoves ==
    /\ Created
    /\ obs_count = 0
    /\ prediction.revealed_item = None
    /\ prediction.revealed_ability = None
    /\ prediction.turns_seen = Cardinality(prediction.revealed_moves)

\* C1: in every reachable belief state of the base predictor each non-empty
\* distribution (ability_probs, item_probs, move_probs) is non-negative and
\* sums to 1.  (Stated as claimed; the move distribution breaks it.)
C1_DistributionsSumToOne ==
    Created =>
        /\ IsDistribution(prediction.ability_probs)
        /\ IsDistribution(prediction.item_probs)
        /\ IsDistribution(prediction.move_probs)

\* C2: a name in impossible_items never has positive probability in
\* item_probs, whatever observations follow.  (Stated as claimed; an item
\* reveal of an eliminated name breaks it.)
C2_EliminatedItemHasNoMass ==
    \A item \in prediction.impossible_items :
        Get(prediction.item_probs, item) = 0

\* C3: impossible_items only grows: after every operation the eliminated set
\* is a superset of the eliminated set before it.
C3_EliminatedSetGrows ==
    [][prediction.impossible_items \subseteq prediction'.impossible_items]_vars

C3_Witness ==
    /\ choice_items \subseteq prediction.impossible_items
    /\ "Assault Vest" \in prediction.impossible_items
    /\ "Heavy-Duty Boots" \in prediction.impossible_items

\* C4: revealed_moves never holds more than 4 moves.  (Stated as claimed;
\* a fifth distinct move reveal breaks it.)
C4_AtMostFourMoves == Cardinality(prediction.revealed_moves) <= 4

\* C5: once the item is confirmed, every later move reveal (with its
\* blend), damage observation and ability-activation observation leaves
\* item_probs equal to {confirmed item: 1.0}; an item confirmed at creation
\* survives the blend at creation.
C5_ConfirmedItemIsTerminal ==
    [][/\ (/\ Created
           /\ prediction.revealed_item # None
           /\ (UpdateWithMove \/ ApplyDamageConstraints
               \/ ApplyAbilityActivationConstraint))
          => /\ prediction'.revealed_item = prediction.revealed_item
             /\ prediction'.item_probs = Certain(prediction.revealed_item)
       /\ (CreateInitialPrediction /\ prediction'.revealed_item # None)
          => prediction'.item_probs = Certain(prediction'.revealed_item)]_vars

C5_Witness ==
    /\ BlendRuns
    /\ prediction.pokemon = "Ogerpon-Wellspring"
    /\ prediction.revealed_item = "Wellspring Mask"
    /\ prediction.item_probs = Certain("Wellspring Mask")
    /\ "Swords Dance" \in prediction.revealed_moves
    /\ obs_count > 0

\* C6: applying the same move reveal, or the same hazard-damage observation,
\* a second time in a row leaves impossible_items as the first application
\* left it.
C6_EliminationIdempotent ==
    Created =>
        /\ \A m \in MoveNames, ml1 \in MLChoices, ml2 \in MLChoices :
            LET once == hybrid_update_with_move(prediction, m, ml1)
                twice == hybrid_update_with_move(once, m, ml2)
            IN twice.impossible_items = once.impossible_items
        /\ \A heal \in BOOLEAN, rec \in BOOLEAN :
            LET once == apply_damage_constraints(prediction, TRUE, heal, rec)
                twice == apply_damage_constraints(once, TRUE, heal, rec)
            IN twice.impossible_items = once.impossible_items

\* a belief on which one move was revealed twice and nothing else happened
C6_Witness ==
    /\ Created
    /\ obs_count = 0
    /\ prediction.pokemon = "Dragapult"
    /\ prediction.revealed_item = None
    /\ prediction.revealed_ability = None
    /\ prediction.turns_seen = 2
    /\ prediction.revealed_moves = {"Swords Dance"}
    /\ prediction.impossible_items = {"Assault Vest"}

\* C7: with the item unconfirmed, all Choice items are eliminated once two
\* distinct moves are revealed; with at most one distinct move revealed no
\* Choice item is eliminated, however often that move is used.
C7_ChoiceItemsAfterTwoMoves ==
    /\ (prediction.revealed_item = None
        /\ Cardinality(prediction.revealed_moves) >= 2)
       => choice_items \subseteq prediction.impossible_items
    /\ Cardinality(prediction.revealed_moves) <= 1
       => choice_items \cap prediction.impossible_items = {}

C7_Witness ==
    /\ prediction.pokemon = "Cinderace"
    /\ prediction.revealed_item = None
    /\ prediction.revealed_moves = {"U-turn", "Thunderbolt"}
    /\ choice_items \subseteq prediction.impossible_items
    /\ "Choice Scarf" \notin Keys(prediction.item_probs)

\* species whose item prior is {A: 50, B: 30, C: 20} with A a Choice item
ABC == [s \in {"Dragapult", "Cinderace"} |->
          IF s = "Dragapult"
          THEN [A |-> "Choice Band", B |-> "Heavy-Duty Boots", C |-> "Assault Vest"]
          ELSE [A |-> "Choice Scarf", B |-> "Life Orb", C |-> "Leftovers"]]

SixtyForty(s) == [w |-> (ABC[s].B :> 3 @@ ABC[s].C :> 2), d |-> 5]

TwoDamagingMoves ==
    /\ OnlyDistinctMoves
    /\ prediction.pokemon \in DOMAIN ABC
    /\ Cardinality(prediction.revealed_moves) = 2
    /\ prediction.revealed_moves \cap non_attacking_moves = {}

\* C8 as claimed: for a prior {A:50, B:30, C:20} with A move-locking, after
\* any two distinct damaging moves item_probs is exactly {B: 0.6, C: 0.4}.
C8_Original ==
    TwoDamagingMoves => prediction.item_probs = SixtyForty(prediction.pokemon)

\* no revealed move has a move -> item correlation entry naming B or C
NoHintOnBC ==
    \A m \in prediction.revealed_moves :
        m \in DOMAIN move_item_hints =>
            move_item_hints[m] \cap {ABC[prediction.pokemon].B,
                                     ABC[prediction.pokemon].C} = {}

\* C8 amended: ... after two distinct damaging moves neither of which has a
\* move -> item correlation entry naming B or C, item_probs is exactly
\* {B: 0.6, C: 0.4}.
C8_RatioKeptWithoutHint ==
    (TwoDamagingMoves /\ NoHintOnBC)
        => prediction.item_probs = SixtyForty(prediction.pokemon)

C8_Witness ==
    /\ TwoDamagingMoves
    /\ NoHintOnBC
    /\ prediction.pokemon = "Cinderace"
    /\ "U-turn" \in prediction.revealed_moves
    /\ prediction.item_probs = SixtyForty("Cinderace")

\* C9: with the item unconfirmed, a revealed non-damaging move has
\* eliminated Assault Vest (in impossible_items, absent from item_probs);
\* while only damaging moves are revealed Assault Vest is not eliminated.
C9_AssaultVestRule ==
    /\ (prediction.revealed_item = None
        /\ prediction.revealed_moves \cap non_attacking_moves # {})
       => /\ "Assault Vest" \in prediction.impossible_items
          /\ "Assault Vest" \notin Keys(prediction.item_probs)
    /\ prediction.revealed_moves \cap non_attacking_moves = {}
       => "Assault Vest" \notin prediction.impossible_items

C9_Witness ==
    /\ prediction.pokemon = "Dragapult"
    /\ prediction.revealed_item = None
    /\ prediction.revealed_moves = {"Dragon Darts", "Protect"}
    /\ "Assault Vest" \in prediction.impossible_items
    /\ Keys(prediction.item_probs) = {"Heavy-Duty Boots"}

\* C10: for every forme-bound species the belief returned by
\* create_initial_prediction has the required item confirmed with
\* item_probs = {required item: 1.0}, with or without prior data.  (Stated
\* as claimed; a forme-bound species without prior data breaks it.)
C10_RequiredItemConfirmedAtCreation ==
    (/\ Created
     /\ prediction.turns_seen = 0
     /\ obs_count = 0
     /\ prediction.pokemon \in DOMAIN required_items)
        => /\ prediction.revealed_item = required_items[prediction.pokemon]
           /\ prediction.item_probs = Certain(required_items[prediction.pokemon])

\* C11: when create_initial_prediction is given a species whose prior lists
\* exactly one ability, the belief it returns has revealed_ability equal to
\* that ability and ability_probs = {ability: 1.0}.
C11_SingleAbilityConfirmedAtCreation ==
    [][CreateInitialPrediction =>
         LET ms == get_pokemon_moveset(prediction'.pokemon)
         IN (ms.found /\ Cardinality(DOMAIN ms.data.abilities) = 1)
            => \A a \in DOMAIN ms.data.abilities :
                 /\ prediction'.revealed_ability = a
                 /\ prediction'.ability_probs = Certain(a)]_vars

C11_Witness ==
    /\ prediction.pokemon = "Great Tusk"
    /\ prediction.turns_seen = 0
    /\ prediction.revealed_ability = "Protosynthesis"
    /\ prediction.ability_probs = Certain("Protosynthesis")
    /\ prediction.revealed_item = None

\* the belief's confirmed ability is dual-path and its natural condition
\* (sun for Protosynthesis, Electric Terrain for Quark Drive) is present
NaturalConditionPresent(p, sun_active, electric_terrain_active) ==
    \/ p.revealed_ability = "Protosynthesis" /\ sun_active
    \/ p.revealed_ability = "Quark Drive" /\ electric_terrain_active

NaturalConditionAbsent(p, sun_active, electric_terrain_active) ==
    \/ p.revealed_ability = "Protosynthesis" /\ ~sun_active
    \/ p.revealed_ability = "Quark Drive" /\ ~electric_terrain_active

BoosterEnergyConfirmed(p) ==
    /\ p.revealed_item = "Booster Energy"
    /\ p.item_probs = Certain("Booster Energy")

\* C12 as claimed: whenever Protosynthesis / Quark Drive is observed to
\* activate with its natural condition absent, the belief's item becomes
\* Booster Energy with item_probs = {Booster Energy: 1.0}.
C12_Original ==
    Created =>
        \A sun \in BOOLEAN, et \in BOOLEAN :
            NaturalConditionAbsent(prediction, sun, et)
            => BoosterEnergyConfirmed(
                   apply_ability_activation_constraint(prediction, TRUE, sun, et))

\* C12 amended: if no item is confirmed yet, an activation of the belief's
\* confirmed Protosynthesis / Quark Drive with the natural condition absent
\* confirms Booster Energy with item_probs = {Booster Energy: 1.0}; an item
\* that is already confirmed stays as it is.
C12_BoosterEnergyWhenItemUnconfirmed ==
    Created =>
        \A sun \in BOOLEAN, et \in BOOLEAN :
            NaturalConditionAbsent(prediction, sun, et)
            => LET q == apply_ability_activation_constraint(prediction, TRUE, sun, et)
               IN IF prediction.revealed_item = None
                  THEN BoosterEnergyConfirmed(q)
                  ELSE q = prediction

C12_Witness ==
    /\ obs_count = 1
    /\ prediction.revealed_ability = "Quark Drive"
    /\ BoosterEnergyConfirmed(prediction)

\* C13: an activation of the belief's Protosynthesis in sun, or of its Quark
\* Drive in Electric Terrain, leaves item_probs, revealed_item and
\* impossible_items as they were; for such an activation
\* detect_paradox_booster_energy returns a constraint with no confirmed item
\* and no probability boost.
C13_NaturalActivationChangesNothing ==
    /\ Created =>
        \A sun \in BOOLEAN, et \in BOOLEAN :
            NaturalConditionPresent(prediction, sun, et)
            => LET q == apply_ability_activation_constraint(prediction, TRUE, sun, et)
               IN /\ q.item_probs = prediction.item_probs
                  /\ q.revealed_item = prediction.revealed_item
                  /\ q.impossible_items = prediction.impossible_items
    /\ (/\ mechanics.method = "detect_paradox_booster_energy"
        /\ mechanics.pokemon \in DOMAIN paradox_pokemon
        /\ mechanics.ability_activated
        /\ \/ /\ paradox_pokemon[mechanics.pokemon] = "Protosynthesis"
              /\ mechanics.weather_active = "Sun"
           \/ /\ paradox_pokemon[mechanics.pokemon] = "Quark Drive"
              /\ mechanics.terrain_active = "Electric Terrain")
       => /\ mechanics.result.returned
          /\ mechanics.result.confirmed_items = {}
          /\ mechanics.result.probability_boosts = EmptyFcn

C13_Witness ==
    /\ prediction.pokemon = "Great Tusk"
    /\ prediction.revealed_ability = "Protosynthesis"
    /\ prediction.revealed_item = None
    /\ obs_count = 1
    /\ mechanics.method = "detect_paradox_booster_energy"
    /\ mechanics.pokemon = "Great Tusk"
    /\ mechanics.ability_activated
    /\ mechanics.weather_active = "Sun"
    /\ mechanics.result.returned
    /\ mechanics.result.confirmed_items = {}

\* x1 : y1 = x2 : y2 for non-negative weights (x1 * y2 = x2 * y1, compared
\* in lowest terms)
SameRatio(x1, y1, x2, y2) ==
    IF (x1 = 0 /\ y1 = 0) \/ (x2 = 0 /\ y2 = 0) THEN TRUE
    ELSE RNorm(x1, y1) = RNorm(x2, y2)

\* C14: with the item unconfirmed, after an observation of entry-hazard
\* damage Heavy-Duty Boots is in impossible_items and absent from
\* item_probs; when the observation carries nothing else, the other items
\* are all kept, sum to 1 and keep their pairwise ratios.
C14_HazardDamageRulesOutBoots ==
    (Created /\ prediction.revealed_item = None) =>
        /\ \A heal \in BOOLEAN, rec \in BOOLEAN :
            LET q == apply_damage_constraints(prediction, TRUE, heal, rec)
            IN /\ "Heavy-Duty Boots" \in q.impossible_items
               /\ "Heavy-Duty Boots" \notin Keys(q.item_probs)
        /\ LET q == apply_damage_constraints(prediction, TRUE, FALSE, FALSE)
               old == prediction.item_probs
               new == q.item_probs
           IN /\ Keys(new) = Keys(old) \ {"Heavy-Duty Boots"}
              /\ IsDistribution(new)
              /\ \A a \in Keys(new), b \in Keys(new) :
                    SameRatio(new.w[a], new.w[b], old.w[a], old.w[b])

C14_Witness ==
    /\ prediction.pokemon = "Great Tusk"
    /\ prediction.revealed_item = None
    /\ prediction.turns_seen = 0
    /\ obs_count = 1
    /\ prediction.impossible_items = {"Heavy-Duty Boots"}
    /\ prediction.item_probs =
         [w |-> ("Booster Energy" :> 2 @@ "Leftovers" :> 1), d |-> 3]

\* C17: with the item unconfirmed, a passive-heal observation keeps every
\* item, multiplies the weight of each healing item in item_probs by 3
\* relative to every other item, and leaves item_probs summing to 1; items
\* outside the healing list keep their mutual ratios.
C17_PassiveHealTriplesHealingItems ==
    (Created /\ prediction.revealed_item = None) =>
        LET q == apply_damage_constraints(prediction, FALSE, TRUE, FALSE)
            old == prediction.item_probs
            new == q.item_probs
            factor(item) == IF item \in healing_items THEN 3 ELSE 1
        IN /\ Keys(new) = Keys(old)
           /\ IsDistribution(new)
           /\ q.impossible_items = prediction.impossible_items
           /\ \A a \in Keys(new), b \in Keys(new) :
                 SameRatio(new.w[a], new.w[b],
                           factor(a) * old.w[a], factor(b) * old.w[b])

C17_Witness ==
    /\ prediction.pokemon = "Cinderace"
    /\ prediction.revealed_item = None
    /\ prediction.turns_seen = 0
    /\ obs_count = 1
    /\ prediction.impossible_items = {}
    /\ prediction.item_probs =
         [w |-> ("Choice Scarf" :> 5 @@ "Life Orb" :> 3 @@ "Leftovers" :> 6),
          d |-> 14]

\* the last detector call was detect_heavy_duty_boots for a creature that
\* took no hazard damage
NoHazardDamageCall ==
    /\ mechanics.method = "detect_heavy_duty_boots"
    /\ ~mechanics.took_hazard_damage

\* a type or ability of the creature explains the immunity to the hazard
NaturalImmunity ==
    \/ /\ mechanics.hazard_type \in {"Spikes", "Sticky Web", "Toxic Spikes"}
       /\ \/ "Flying" \in mechanics.pokemon_types
          \/ mechanics.ability \in {"Levitate", "Magic Guard"}
    \/ /\ mechanics.hazard_type = "Toxic Spikes"
       /\ \/ "Poison" \in mechanics.pokemon_types
          \/ "Steel" \in mechanics.pokemon_types
    \/ /\ mechanics.hazard_type = "Stealth Rock"
       /\ mechanics.ability = "Magic Guard"

UnexplainedImmunity ==
    /\ NoHazardDamageCall
    /\ mechanics.revealed_item = None
    /\ mechanics.hazard_type \in {"Stealth Rock", "Spikes", "Toxic Spikes",
                                  "Sticky Web"}
    /\ ~NaturalImmunity

\* C15 as claimed: zero hazard damage without a natural immunity makes
\* detect_heavy_duty_boots confirm no item and give Heavy-Duty Boots and
\* every other boosted candidate one and the same multiplier, for Stealth
\* Rock, Spikes, Toxic Spikes and Sticky Web alike.
C15_Original ==
    UnexplainedImmunity =>
        LET r == mechanics.result
        IN /\ r.returned
           /\ r.confirmed_items = {}
           /\ "Heavy-Duty Boots" \in DOMAIN r.probability_boosts
           /\ \A k \in DOMAIN r.probability_boosts :
                r.probability_boosts[k] = r.probability_boosts["Heavy-Duty Boots"]
           /\ \A k \in DOMAIN r.probability_boosts :
                r.probability_boosts[k] = 3

\* C15 amended: with no item revealed, zero hazard damage and no natural
\* immunity, detect_heavy_duty_boots confirms no item and boosts Heavy-Duty
\* Boots and Air Balloon by the same multiplier 3 for Spikes, Toxic Spikes
\* and Sticky Web; for Stealth Rock it confirms Heavy-Duty Boots, with
\* multiplier 100.
C15_BootsOrBalloonExceptStealthRock ==
    UnexplainedImmunity =>
        LET r == mechanics.result
        IN /\ r.returned
           /\ r.ruled_out_items = {}
           /\ IF mechanics.hazard_type = "Stealth Rock"
              THEN /\ r.confirmed_items = {"Heavy-Duty Boots"}
                   /\ DOMAIN r.probability_boosts = {"Heavy-Duty Boots"}
                   /\ r.probability_boosts["Heavy-Duty Boots"] = 100
              ELSE /\ r.confirmed_items = {}
                   /\ DOMAIN r.probability_boosts
                        = {"Heavy-Duty Boots", "Air Balloon"}
                   /\ r.probability_boosts["Heavy-Duty Boots"] = 3
                   /\ r.probability_boosts["Air Balloon"] = 3

C15_Witness ==
    /\ UnexplainedImmunity
    /\ mechanics.hazard_type = "Toxic Spikes"
    /\ mechanics.pokemon_types = {"Ground", "Fighting"}
    /\ mechanics.ability = "Guts"
    /\ mechanics.result.returned
    /\ DOMAIN mechanics.result.probability_boosts
         = {"Heavy-Duty Boots", "Air Balloon"}

StatusSynergy ==
    [status \in {"burn", "poison", "badly poisoned"} |->
        IF status = "burn" THEN {"Guts", "Marvel Scale", "Quick Feet"}
        ELSE {"Poison Heal"}]

StatusOrb ==
    [status \in {"burn", "poison", "badly poisoned"} |->
        IF status = "burn" THEN "Flame Orb" ELSE "Toxic Orb"]

CorrelationMoves == MoveNames \cup {"Earthquake", "Close Combat"}

\* what one move reveal must have done to the move distribution (after) of
\* belief p when the move has a move -> move entry
MovesReweighted(p, m, after) ==
    LET weight(x) ==
            IF x = m THEN 2 * p.move_probs.d
            ELSE IF x \in move_synergies[m] /\ x \notin p.revealed_moves
                 THEN 3 * p.move_probs.w[x]
                 ELSE 2 * p.move_probs.w[x]
    IN /\ Keys(after) = Keys(p.move_probs) \cup {m}
       /\ IsDistribution(after)
       /\ \A a \in Keys(after), b \in Keys(after) :
             SameRatio(after.w[a], after.w[b], weight(a), weight(b))

\* what one move reveal must have done to the item distribution (after) of
\* belief p, item unconfirmed, when the move has a move -> item entry;
\* eliminated is impossible_items after the reveal
ItemsReweighted(p, m, after, eliminated) ==
    LET weight(x) ==
            IF x \in move_item_hints[m] THEN 13 * p.item_probs.w[x]
            ELSE 10 * p.item_probs.w[x]
    IN /\ Keys(after) = Keys(p.item_probs) \ eliminated
       /\ IsDistribution(after)
       /\ \A a \in Keys(after), b \in Keys(after) :
             SameRatio(after.w[a], after.w[b], weight(a), weight(b))

CorrelationApplied(p, m) ==
    LET q == update_with_move(p, m)
    IN /\ m \in DOMAIN move_synergies
          => MovesReweighted(p, m, q.move_probs)
       /\ (m \in DOMAIN move_item_hints /\ p.revealed_item = None)
          => ItemsReweighted(p, m, q.item_probs, q.impossible_items)
       /\ p.revealed_item # None => q.item_probs = p.item_probs

\* C19: revealing a move with a correlation entry multiplies each
\* correlated, present, not yet revealed move by 1.5 and (item unconfirmed)
\* each correlated, present, not eliminated item by 1.3 relative to the
\* other entries; the revealed move itself stands at weight 1.0 before
\* renormalization, earlier revealed moves and a confirmed item get no
\* multiplier; each of the two distributions then sums to 1.  Checked for
\* one reveal and for a second reveal following it.
C19_CorrelationReweighting ==
    Created =>
        \A m1 \in CorrelationMoves :
            /\ CorrelationApplied(prediction, m1)
            /\ \A m2 \in CorrelationMoves :
                 CorrelationApplied(update_with_move(prediction, m1), m2)

C19_Witness ==
    /\ prediction.pokemon = "Dragapult"
    /\ prediction.revealed_item = None
    /\ prediction.revealed_moves = {"U-turn"}
    /\ prediction.turns_seen = 1
    /\ obs_count = 0
    /\ prediction.move_probs =
         [w |-> ("U-turn" :> 20 @@ "Earthquake" :> 9 @@ "Dragon Darts" :> 5),
          d |-> 34]
    /\ prediction.item_probs =
         [w |-> ("Choice Band" :> 65 @@ "Heavy-Duty Boots" :> 39
                 @@ "Assault Vest" :> 20),
          d |-> 124]

\* 0.6 * min(1, revealedFactCount / 6) + 0.4 * mean(max probability of the
\* ability, item and move distributions), on the belief as it stands
ClaimedScore(p) ==
    LET revealedFactCount ==
            Cardinality(p.revealed_moves)
            + (IF p.revealed_ability # None THEN 1 ELSE 0)
            + (IF p.revealed_item # None THEN 1 ELSE 0)
        facts == IF revealedFactCount >= 6 THEN <<1, 1>>
                 ELSE RNorm(revealedFactCount, 6)
        mean == RMul(RAdd(RAdd(MaxProb(p.ability_probs), MaxProb(p.item_probs)),
                          MaxProb(p.move_probs)), <<1, 3>>)
    IN RAdd(RMul(<<3, 5>>, facts), RMul(<<2, 5>>, mean))

\* C20: in every reachable belief the stored confidence lies in [0,1] and
\* equals 0.6 * min(1, revealedFactCount/6) + 0.4 * mean(max probability of
\* the ability, item and move distributions) of that belief.  (Stated as
\* claimed; a damage observation changes item_probs and leaves the stored
\* confidence as it was.)
C20_ConfidenceMatchesFormula ==
    Created =>
        LET score == ConfidenceValue(prediction.confidence)
            claimed == ClaimedScore(prediction)
        IN /\ 0 <= score[1]
           /\ score[1] <= score[2]
           /\ score[1] * claimed[2] = claimed[1] * score[2]

\* a >= b for rationals <<numerator, denominator>>
RGeq(a, b) == a[1] * b[2] >= b[1] * a[2]

\* C21: an update that confirms a new fact (a move, the ability or the item
\* not confirmed before) leaves confidence at least as large as it was
\* before the update.  (Stated as claimed; a move reveal with a
\* move_synergies entry renormalizes move_probs, and with several moves
\* already held at 1.0 the largest move probability falls by more than the
\* new fact adds.)
C21_ConfidenceNeverDropsOnNewFact ==
    Created =>
        LET before == ConfidenceValue(prediction.confidence)
        IN /\ \A m \in MoveNames \ prediction.revealed_moves :
                RGeq(ConfidenceValue(update_with_move(prediction, m).confidence),
                     before)
           /\ prediction.revealed_ability = None =>
                \A a \in AbilityNames :
                    RGeq(ConfidenceValue(
                             update_with_ability(prediction, a).confidence),
                         before)
           /\ prediction.revealed_item = None =>
                \A i \in ItemNames :
                    RGeq(ConfidenceValue(
                             update_with_item(prediction, i).confidence),
                         before)

\* the stored confidence denotes the score of the belief as it stands
ConfidenceIsCurrent(p) ==
    \/ p.confidence = calculate_confidence(p)
    \/ ConfidenceValue(p.confidence) = ConfidenceValue(calculate_confidence(p))

\* C22: after every public update operation (move, ability or item reveal,
\* damage observation, ability-activation observation, and the hybrid move
\* reveal with its blend) the stored confidence equals the score computed
\* from the belief's current distributions and confirmed facts.  (Stated as
\* claimed; the damage and activation observations and the blend change
\* the distributions after, or without, the last recomputation.)
C22_ConfidenceRecomputedByEveryUpdate ==
    [][(\/ UpdateWithMove
        \/ UpdateWithAbility
        \/ UpdateWithItem
        \/ ApplyDamageConstraints
        \/ ApplyAbilityActivationConstraint)
       => ConfidenceIsCurrent(prediction')]_vars

\* names the species prior lists in a category (none without prior data)
PriorNames(pokemon_name, category) ==
    LET ms == get_pokemon_moveset(pokemon_name)
    IN IF ms.found THEN DOMAIN ms.data[category] ELSE {}

\* dict[name] == 1.0
HasProbabilityOne(dist, name) ==
    /\ name \in Keys(dist)
    /\ dist.w[name] = dist.d

\* C23: an observed move or item name absent from the species prior is
\* accepted and, right after that update, is confirmed with probability
\* exactly 1.0 in its category's distribution, whatever the name.  (Stated
\* as claimed; a move with a move_synergies entry is set to 1.0 and then
\* divided by the total of the move map.)
C23_UnknownNameConfirmedAtOne ==
    Created =>
        /\ \A m \in MoveNames \ PriorNames(prediction.pokemon, "moves") :
            LET after == update_with_move(prediction, m)
            IN /\ m \in after.revealed_moves
               /\ HasProbabilityOne(after.move_probs, m)
        /\ \A i \in ItemNames \ PriorNames(prediction.pokemon, "items") :
            LET after == update_with_item(prediction, i)
            IN /\ after.revealed_item = i
               /\ HasProbabilityOne(after.item_probs, i)

\* get_pokemon_moveset(pokemon_name) is None
NoPriorData(pokemon_name) == ~get_pokemon_moveset(pokemon_name).found

\* every distribution empty, nothing confirmed, nothing eliminated,
\* confidence 0.0
IsBlank(p) ==
    /\ p.ability_probs = EmptyDist
    /\ p.item_probs = EmptyDist
    /\ p.move_probs = EmptyDist
    /\ p.spread_probs = EmptyDist
    /\ p.tera_probs = EmptyDist
    /\ p.revealed_moves = {}
    /\ p.revealed_ability = None
    /\ p.revealed_item = None
    /\ p.revealed_tera = None
    /\ p.impossible_items = {}
    /\ ConfidenceValue(p.confidence) = <<0, 1>>

EmptyWhenMassless(dist) == Total(dist) = 0 => dist = EmptyDist

\* C25: whenever a distribution's total mass is 0 at a renormalization
\* (every candidate eliminated, or every prior weight 0), the resulting
\* distribution is the empty map, never a non-empty map whose probabilities
\* sum to 0: for the prior normalization of any raw category data, for the
\* item eliminations that follow on a belief built from it, and for every
\* distribution of every reachable belief.  (Stated as claimed; each
\* renormalization is skipped when the total is 0 and the map is kept.)
C25_MasslessDistributionIsEmpty ==
    /\ \A data \in PriorWeightMaps :
        LET p == [SetPrediction("Missingno") EXCEPT
                    !.item_probs = normalize_probs(data)]
        IN /\ EmptyWhenMassless(p.item_probs)
           /\ EmptyWhenMassless(apply_move_constraints(p, "Protect").item_probs)
           /\ EmptyWhenMassless(
                  apply_damage_constraints(p, TRUE, FALSE, FALSE).item_probs)
    /\ EmptyWhenMassless(prediction.ability_probs)
    /\ EmptyWhenMassless(prediction.item_probs)
    /\ EmptyWhenMassless(prediction.move_probs)
    /\ EmptyWhenMassless(prediction.spread_probs)
    /\ EmptyWhenMassless(prediction.tera_probs)

\* the claimed weight, in tenths, after n recorded battles
StepWeight(n) ==
    CASE n < 50 -> 0
      [] 50 <= n /\ n < 100 -> 2
      [] 100 <= n /\ n < 200 -> 4
      [] 200 <= n /\ n < 500 -> 5
      [] 500 <= n /\ n < 1000 -> 6
      [] n >= 1000 -> 7

\* C26: the blend weight is a step function of the number n of recorded
\* battles: 0 for n < 50, 0.2 for 50 <= n < 100, 0.4 for 100 <= n < 200,
\* 0.5 for 200 <= n < 500, 0.6 for 500 <= n < 1000 and 0.7 from 1000 on; it
\* never decreases as n grows and never exceeds 0.7 (weights in tenths).
C26_BlendWeightIsStepFunction ==
    /\ calculate_ml_weight(battle_history) = StepWeight(battle_history)
    /\ \A n \in 0..MaxBattles :
        /\ calculate_ml_weight(n) = StepWeight(n)
        /\ n > 0 => calculate_ml_weight(n - 1) <= calculate_ml_weight(n)
        /\ calculate_ml_weight(n) <= 7

\* a belief was created by a blend at the first positive weight, 0.2
C26_Witness ==
    /\ Created
    /\ BlendRuns
    /\ battle_history = 50
    /\ calculate_ml_weight(battle_history) = 2

\* the item, move and tera distributions of two beliefs are the same
SameBlendedCategories(p, q) ==
    /\ p.item_probs = q.item_probs
    /\ p.move_probs = q.move_probs
    /\ p.tera_probs = q.tera_probs

\* C27: with a blend weight of 0 the hybrid operations return the
\* pure-belief item, move and tera distributions unchanged, for every
\* belief and every output of the external model.
C27_ZeroWeightKeepsBelief ==
    calculate_ml_weight(battle_history) = 0 =>
        \A ml \in MLPredictions :
            /\ \A name \in SpeciesNames :
                SameBlendedCategories(
                    hybrid_create_initial_prediction(name, ml),
                    create_initial_prediction(name))
            /\ Created =>
                \A m \in MoveNames :
                    SameBlendedCategories(
                        hybrid_update_with_move(prediction, m, ml),
                        update_with_move(prediction, m))

\* a trained model and a battle context are in place, the weight is 0, and
\* a move reveal has been processed
C27_Witness ==
    /\ is_trained
    /\ current_battle_context.set
    /\ calculate_ml_weight(battle_history) = 0
    /\ prediction.revealed_moves # {}
    /\ prediction.move_probs # EmptyDist

\* the external distribution restricted to the names outside the eliminated
\* set, renormalized
ExternalOnly(ml_dist, eliminated) == Renormalize(Del(ml_dist, eliminated))

\* the item and tera distributions of the blended belief are the external
\* ones, where the category is unconfirmed
TakenFromExternal(blended, base, ml) ==
    /\ base.revealed_item = None =>
        blended.item_probs = ExternalOnly(ml.item, base.impossible_items)
    /\ base.revealed_tera = None =>
        blended.tera_probs = ExternalOnly(ml.tera, {})

\* C28: a blend at the maximum weight returns, for an unconfirmed category,
\* the external distribution restricted to the names outside the eliminated
\* set and renormalized, with no contribution from the belief's own
\* distribution.  (Stated as claimed; the maximum weight is 0.7, and the
\* belief's distribution enters the blend with the remaining 0.3.)
C28_MaximumWeightReturnsExternal ==
    (BlendRuns /\ calculate_ml_weight(battle_history) = 7) =>
        \A ml \in MLPredictions :
            /\ \A name \in SpeciesNames :
                TakenFromExternal(hybrid_create_initial_prediction(name, ml),
                                  create_initial_prediction(name), ml)
            /\ Created =>
                \A m \in MoveNames :
                    TakenFromExternal(
                        hybrid_update_with_move(prediction, m, ml),
                        update_with_move(prediction, m), ml)

\* the item, move and tera distributions each are empty or sum to 1, and no
\* eliminated item is held
BlendIsNormalized(p) ==
    /\ IsDistribution(p.item_probs)
    /\ IsDistribution(p.move_probs)
    /\ IsDistribution(p.tera_probs)
    /\ Keys(p.item_probs) \cap p.impossible_items = {}

\* C29: after a blend with a positive weight every blended category (item,
\* move, tera) whose result is non-empty sums to 1, and the names of the
\* eliminated set receive no mass.  (Stated as claimed; the blended move
\* map is cut to its 50 largest entries and stored without renormalizing.)
C29_BlendRenormalizes ==
    BlendRuns =>
        \A ml \in MLPredictions :
            /\ \A name \in SpeciesNames :
                BlendIsNormalized(hybrid_create_initial_prediction(name, ml))
            /\ Created =>
                \A m \in MoveNames :
                    BlendIsNormalized(
                        hybrid_update_with_move(prediction, m, ml))

\* the step returned the belief the base engine produces
PureBeliefResult ==
    /\ CreateInitialPrediction =>
        \E name \in SpeciesNames :
            prediction' = create_initial_prediction(name)
    /\ UpdateWithMove =>
        \E m \in MoveNames : prediction' = update_with_move(prediction, m)

\* C30: when the external predictor is untrained, has no battle context or
\* too few battles to be consulted, or its predict call raises, the hybrid
\* create_initial_prediction and update_with_move return normally with
\* exactly the base engine's belief; the failure never reaches the caller.
\* (Stated as claimed; an exception raised by predict leaves both methods
\* uncaught.)
C30_BlendFailsOpen ==
    [][(CreateInitialPrediction \/ UpdateWithMove) =>
        /\ ~raised'
        /\ ~BlendRuns => PureBeliefResult]_vars

\* C31: replaying an observation that was already applied is a no-op:
\* update_with_move with the same move a second time, or the same heal or
\* recoil observation a second time, leaves the distributions, the confirmed
\* facts, the eliminated set and the observation count as they were after
\* the first application.  (Stated as claimed; the belief keeps no record
\* of processed observations, so the second call counts and reweights
\* again.)
C31_ReplayIsNoOp ==
    Created =>
        /\ \A m \in MoveNames :
            LET once == update_with_move(prediction, m)
            IN update_with_move(once, m) = once
        /\ \A heal \in BOOLEAN, rec \in BOOLEAN :
            LET once == apply_damage_constraints(prediction, FALSE, heal, rec)
            IN apply_damage_constraints(once, FALSE, heal, rec) = once

\* one observation applied to a belief held by value
ApplyObservation(p, observation) ==
    CASE observation.op = "create" -> create_initial_prediction(observation.arg)
      [] observation.op = "move" -> update_with_move(p, observation.arg)
      [] observation.op = "item" -> update_with_item(p, observation.arg)
      [] observation.op = "damage" ->
            apply_damage_constraints(p, TRUE, observation.arg, FALSE)

\* the belief a stream of observations yields when it runs alone
RECURSIVE RunAlone(_)
RunAlone(stream) ==
    IF stream = <<>> THEN SetPrediction(None)
    ELSE ApplyObservation(RunAlone(SubSeq(stream, 1, Len(stream) - 1)),
                          stream[Len(stream)])

\* C32: for two distinct beliefs, also two created from the same species
\* prior, an update applied to one leaves every field of the other and the
\* prior table unchanged; hence, however the two creatures' update streams
\* interleave, each belief is the one its own stream yields when run alone.
C32_BeliefsAreIndependent ==
    [][/\ \A x \in TableAddresses : creatures'.heap[x] = creatures.heap[x]
       /\ \E id \in CreatureIds :
            \A other \in CreatureIds \ {id} :
                Deref(creatures', other) = Deref(creatures, other)
       /\ \A id \in CreatureIds :
            Deref(creatures', id) = RunAlone(creatures'.streams[id])]_vars

\* two creatures of one species, each updated, hold different beliefs
C32_Witness ==
    /\ creatures.refs["a"].pokemon = "Dragapult"
    /\ creatures.refs["b"].pokemon = "Dragapult"
    /\ Len(creatures.streams["a"]) >= 2
    /\ Len(creatures.streams["b"]) >= 2
    /\ Deref(creatures, "a").item_probs # Deref(creatures, "b").item_probs

\* C33: once at least 50 battles are recorded and a training has succeeded,
\* an end_battle that records a battle retrains the models exactly when 50
\* further battles have been recorded since that training
C33_RetrainsEveryFiftyBattles ==
    [][(/\ is_trained
        /\ battle_history >= min_battles_required
        /\ battle_history' = battle_history + 1)
       => ((trained_at' = battle_history')
             <=> (battle_history' - trained_at = retrain_interval))]_vars

\* the items the move reveal rules out that were not ruled out before
EliminatedBy(p, after) == after.impossible_items \ p.impossible_items

\* C34: within one update_with_move pass the hard eliminations come before
\* the move-to-item correlation boost: the boost is taken over the items
\* that survive, an item eliminated by the current observation has no mass
\* at the end of the pass, and the confidence stored is the one computed
\* from the distributions as they stand after the boosts
C34_EliminateThenBoostThenScore ==
    Created =>
        \A m \in MoveNames :
            LET after == update_with_move(prediction, m)
                survivors == Renormalize(Del(prediction.item_probs,
                                             after.impossible_items))
                hinted == IF m \in DOMAIN move_item_hints
                          THEN move_item_hints[m] ELSE {}
            IN /\ \A i \in EliminatedBy(prediction, after) :
                    \/ i \notin Keys(after.item_probs)
                    \/ after.item_probs.w[i] = 0
               /\ prediction.revealed_item = None
                    => after.item_probs = Renormalize(Boost(survivors, hinted, 13, 10))
               /\ after.confidence = calculate_confidence(after)

\* Dragapult after Dragon Darts and then U-turn: the second move rules out
\* Choice Band, which U-turn hints at, and boosts Heavy-Duty Boots over
\* Assault Vest; Dragon Darts below 1.0 shows that U-turn came last
C34_Witness ==
    /\ prediction.pokemon = "Dragapult"
    /\ prediction.revealed_moves = {"Dragon Darts", "U-turn"}
    /\ prediction.turns_seen = 2
    /\ prediction.move_probs.w["Dragon Darts"] < prediction.move_probs.d
    /\ "Choice Band" \in prediction.impossible_items
    /\ "Choice Band" \notin Keys(prediction.item_probs)
    /\ prediction.item_probs.w["Heavy-Duty Boots"] * 2
         > prediction.item_probs.w["Assault Vest"] * 3
    /\ prediction.confidence = calculate_confidence(prediction)

\* C35: in every reachable belief each move of revealed_moves has
\* probability exactly 1.0 in move_probs; no later reveal, correlation
\* boost with its renormalization, or blend lowers it.  (Stated as claimed;
\* the renormalization after a correlation boost divides the revealed
\* moves with every other entry.)
C35_RevealedMovesStayAtOne ==
    \A m \in prediction.revealed_moves :
        HasProbabilityOne(prediction.move_probs, m)

\* C36: whatever sequence of set_battle_context, create_initial_prediction,
\* finalize_pokemon and end_battle is called on a HybridSetPredictor, the
\* battle context is non-empty exactly when the recorder has an active
\* battle, and so finalize_pokemon never raises 'No active battle'
C36_ContextMatchesRecorder ==
    /\ current_battle_context.set <=> current_battle.active
    /\ ~recorder_error

\* the second battle of the session with one creature finalized
C36_Witness ==
    /\ battle_history = 99
    /\ current_battle_context.set
    /\ current_battle.active
    /\ current_battle.pokemon = 1
    /\ ~recorder_error

\* C37: on a BattleRecorder, end_battle with an active battle appends
\* exactly that battle to battle_history once and clears the active battle;
\* end_battle without one changes nothing; record_pokemon without one
\* raises and changes nothing; battle_history never shrinks
C37_RecorderLifecycle ==
    [][/\ battle_history' >= battle_history
       /\ (RecorderEndBattle /\ current_battle.active)
            => /\ battle_history' = battle_history + 1
               /\ history_pokemon' = history_pokemon + current_battle.pokemon
               /\ ~current_battle'.active
               /\ recorder_end_battle(battle_history', history_pokemon', current_battle')
                    = [battle_history |-> battle_history',
                       history_pokemon |-> history_pokemon',
                       current_battle |-> current_battle']
       /\ (RecorderEndBattle /\ ~current_battle.active)
            => UNCHANGED <<battle_history, history_pokemon, current_battle>>
       /\ (RecordPokemon /\ ~current_battle.active)
            => /\ recorder_error'
               /\ UNCHANGED <<battle_history, history_pokemon, current_battle>>]_vars

\* two battles were appended, the second holding one record, and a record
\* was then handed in without an active battle
C37_Witness ==
    /\ battle_history = 100
    /\ ~current_battle.active
    /\ recorder_error

\* the commands parse_line knows, with the fewest fields each needs
\* (command included) and the type of the event each yields
MinFields ==
    [c \in {"switch", "drag"} |-> 4] @@ [c \in {"-boost", "-unboost"} |-> 4]
    @@ [c \in {"move", "-damage", "-heal", "-status", "-ability", "-item",
               "-enditem", "-sidestart"} |-> 3]
    @@ [c \in {"weather", "-weather", "terrain", "-fieldstart", "turn",
               "faint"} |-> 2]

EventTypeOf ==
    [c \in {"switch", "drag"} |-> "switch"] @@ [c \in {"-boost", "-unboost"} |-> "boost"]
    @@ [c \in {"weather", "-weather"} |-> "weather"]
    @@ [c \in {"terrain", "-fieldstart"} |-> "terrain"]
    @@ ("move" :> "move" @@ "-damage" :> "damage" @@ "-heal" :> "heal"
        @@ "-status" :> "status" @@ "-ability" :> "ability" @@ "-item" :> "item"
        @@ "-enditem" :> "enditem" @@ "turn" :> "turn"
        @@ "-sidestart" :> "hazard" @@ "faint" :> "faint")

\* a line that starts with a pipe, names a known command, has the fields
\* the command needs, a numeric turn or boost amount and a readable HP
WellFormed(line) ==
    /\ Len(line) >= 2
    /\ line[1] = ""
    /\ line[2] \in DOMAIN MinFields
    /\ Len(line) - 1 >= MinFields[line[2]]
    /\ line[2] = "turn" => line[3] \in DOMAIN int_literal
    /\ line[2] \in {"-boost", "-unboost"} => line[5] \in DOMAIN int_literal
    /\ line[2] \in {"switch", "drag"} => parse_hp(line[5]).error = None
    /\ line[2] \in {"-damage", "-heal"} => parse_hp(line[4]).error = None

IsTurnMarker(line) == WellFormed(line) /\ line[2] = "turn"

\* the number of the last turn event among the first n events, 0 without one
RECURSIVE LastMarker(_, _)
LastMarker(events, n) ==
    IF n = 0 THEN 0
    ELSE IF events[n].event_type = "turn" THEN events[n].turn
    ELSE LastMarker(events, n - 1)

MarkersNonDecreasing(events) ==
    \A i, j \in 1..Len(events) :
        (i < j /\ events[i].event_type = "turn" /\ events[j].event_type = "turn")
            => events[i].turn <= events[j].turn

TurnsNonDecreasing(events) ==
    \A i, j \in 1..Len(events) : i < j => events[i].turn <= events[j].turn

\* C38: every event the parser emits is stamped with the number of the most
\* recent turn marker (0 before any marker); a recognized well-formed line
\* appends exactly one event, of the line's type, behind the events of the
\* earlier lines, and any other line appends none; so with non-decreasing
\* markers the event stream is in non-decreasing turn order
C38_EventsFollowTurnMarkers ==
    [][\A line \in LogLines :
          ParseLine(line) =>
            LET marker == IF IsTurnMarker(line) THEN int_literal[line[3]]
                          ELSE parser.current_turn
                n == Len(parser.events)
            IN /\ parser'.current_turn = marker
               /\ IF WellFormed(line)
                  THEN /\ Len(parser'.events) = n + 1
                       /\ SubSeq(parser'.events, 1, n) = parser.events
                       /\ parser'.events[n + 1].event_type = EventTypeOf[line[2]]
                       /\ parser'.events[n + 1].turn = marker
                  ELSE parser'.events = parser.events
               /\ \A i \in 1..Len(parser'.events) :
                      parser'.events[i].turn = LastMarker(parser'.events, i)
               /\ MarkersNonDecreasing(parser'.events)
                    => TurnsNonDecreasing(parser'.events)]_vars

\* turn 1, a move stamped 1, turn 2
C38_Witness ==
    /\ Len(parser.events) = 3
    /\ parser.events[1].event_type = "turn"
    /\ parser.events[1].turn = 1
    /\ parser.events[2].event_type = "move"
    /\ parser.events[2].turn = 1
    /\ parser.events[3].event_type = "turn"
    /\ parser.events[3].turn = 2
    /\ parser.current_turn = 2

\* C39: a malformed or unrecognized line (unknown command, too few fields,
\* non-numeric turn or boost amount, malformed HP) never halts
\* parse_battle_log: it yields no event, leaves the parser as it was, and
\* the loop goes on.  (Stated as claimed; int() and _parse_hp raise and
\* nothing catches the exception.)
C39_MalformedLineIsSkipped ==
    [][\A line \in LogLines :
          (ParseLine(line) /\ ~WellFormed(line))
            => /\ parse_error' = None
               /\ parser' = parser]_vars

====
